---- MODULE Spec2Model ----
(***************************************************************************)
(* Retrieval-and-decision pipeline of the RAG chatbot: semantic chunking,  *)
(* the persistent FAISS vector store, the semantic retriever and the query *)
(* orchestrator (RAGSystem), with the generation backend, the embedding    *)
(* models and the file system as environment.                              *)
(*                                                                         *)
(* Numbers.  Relevance scores are floats in the code; here they are fixed  *)
(* point integers in units of 1/Scale.  Embeddings are two-dimensional     *)
(* integer vectors whose L2 norm is an integer, so that normalisation and  *)
(* the inner product of normalised vectors are exact.                      *)
(***************************************************************************)
EXTENDS Integers, Sequences, FiniteSets, TLC

\* ------------------------------------------------------------------------
\* Bounds of the model
\* ------------------------------------------------------------------------
MaxRuns == 2          \* process starts (RAGSystem constructions) explored
MaxQueries == 2       \* queries served per process run
MaxBuilds == 3        \* direct build_index calls in the vector-store runs
MaxAdds == 11         \* add_message calls before direct calls of it stop
MaxCalls == 1         \* direct calls on the conversation stores
MaxPieces == 2        \* pieces a raw response text is put together from
MaxSegments == 3      \* segments of a document chunked directly
MaxScores == 3        \* candidates of a query whose scores are given
MaxCleans == 2        \* successive clean_response calls on one text
MaxOps == 4           \* session-store operations called in a row

\* ------------------------------------------------------------------------
\* Program constants (config.py), scores in units of 1/Scale
\* ------------------------------------------------------------------------
Scale == 100
UnitNorm == 5
SEMANTIC_SIMILARITY_THRESHOLD == 70
TOP_K_RETRIEVAL == 10
TOP_K_CONTEXT == 7
MIN_RELEVANCE_THRESHOLD == 60

\* ------------------------------------------------------------------------
\* Generic helpers
\* ------------------------------------------------------------------------
Max(a, b) == IF a >= b THEN a ELSE b

Min(a, b) == IF a <= b THEN a ELSE b

Range(s) == {s[i] : i \in 1..Len(s)}

Take(s, n) == SubSeq(s, 1, Min(n, Len(s)))

RECURSIVE SumSeq(_)
SumSeq(s) == IF s = <<>> THEN 0 ELSE Head(s) + SumSeq(Tail(s))

\* floor of the square root of a natural number, by bisection:
\* lo * lo <= n < hi * hi throughout
RECURSIVE ISqrtBetween(_, _, _)
ISqrtBetween(n, lo, hi) ==
    IF hi - lo <= 1 THEN lo
    ELSE LET mid == (lo + hi) \div 2
         IN  IF mid * mid <= n THEN ISqrtBetween(n, mid, hi)
             ELSE ISqrtBetween(n, lo, mid)

\* 46340 is the largest root of a 32-bit integer
ISqrt(n) == ISqrtBetween(n, 0, Min(n, 46340) + 1)

\* ------------------------------------------------------------------------
\* Embedding models (environment).  A text is a sequence of sentence
\* tokens; each token stands for a sentence with a fixed direction.  The
\* two SentenceTransformer models are deterministic functions of the text.
\* ------------------------------------------------------------------------
Tokens == {"a", "b", "c", "d", "f", "n", "z"}

TokenVec ==
    [t \in Tokens |->
        CASE t = "a" -> <<5, 0>>
          [] t = "b" -> <<3, 4>>
          [] t = "c" -> <<0, 5>>
          [] t = "d" -> <<4, 3>>
          [] t = "f" -> <<-3, 4>>
          [] t = "n" -> <<-5, 0>>
          [] OTHER   -> <<0, 0>>]

Dot(u, v) == u[1] * v[1] + u[2] * v[2]

Norm(v) == ISqrt(Dot(v, v))

\* SemanticChunker.encoder ('all-MiniLM-L6-v2'): one vector per sentence
ChunkerEncode(sentence) == TokenVec[sentence]

\* VectorStore.encoder (EMBEDDING_MODEL): un-normalised vector of a text
StoreEncode(text) ==
    IF text = <<>> THEN <<0, 0>>
    ELSE <<2 * TokenVec[text[1]][1], 2 * TokenVec[text[1]][2]>>

\* faiss.normalize_L2: scale to unit length (UnitNorm); a zero vector stays
normalize_L2(v) ==
    IF Norm(v) = 0 THEN v
    ELSE <<(v[1] * UnitNorm) \div Norm(v), (v[2] * UnitNorm) \div Norm(v)>>

\* inner product of two normalised vectors as a score in units of 1/Scale
InnerProduct(u, v) == (Dot(u, v) * Scale) \div (UnitNorm * UnitNorm)

\* ------------------------------------------------------------------------
\* processing/chunking.py
\* ------------------------------------------------------------------------
DocumentChunk(content, source_file, chunk_id, file_type) ==
    [content |-> content, source_file |-> source_file, chunk_id |-> chunk_id,
     file_type |-> file_type, relevance_score |-> 0]

\* a document's content is a sequence of segments separated at the places
\* the sentence regex splits; blank segments are dropped
IsBlank(segment) == segment = "" \/ segment = " "

_split_into_sentences(text) == SelectSeq(text, LAMBDA s : ~IsBlank(s))

\* str.strip() of text made of segments: leading and trailing blanks go
RECURSIVE StripLeft(_)
StripLeft(text) ==
    IF text # <<>> /\ IsBlank(Head(text)) THEN StripLeft(Tail(text)) ELSE text

RECURSIVE StripRight(_)
StripRight(text) ==
    IF text # <<>> /\ IsBlank(text[Len(text)])
    THEN StripRight(SubSeq(text, 1, Len(text) - 1)) ELSE text

Strip(text) == StripRight(StripLeft(text))

\* variant: vectors of norm 0 count as parallel
_cosine_similarity_ZeroIsOne(vec1, vec2) ==
    IF Norm(vec1) = 0 \/ Norm(vec2) = 0 THEN Scale
    ELSE (Dot(vec1, vec2) * Scale) \div (Norm(vec1) * Norm(vec2))

_cosine_similarity(vec1, vec2) ==
    IF Norm(vec1) = 0 \/ Norm(vec2) = 0 THEN 0
    ELSE (Dot(vec1, vec2) * Scale) \div (Norm(vec1) * Norm(vec2))

\* variant: a sentence is compared with the first sentence of the buffer
RECURSIVE ChunkLoop_BufferHead(_, _, _, _, _, _)
ChunkLoop_BufferHead(doc, sentences, i, chunks, current_chunk, chunk_id) ==
    IF i > Len(sentences)
    THEN Append(chunks, DocumentChunk(current_chunk, doc.name, chunk_id,
                                      doc.type))
    ELSE IF _cosine_similarity(ChunkerEncode(current_chunk[1]),
                               ChunkerEncode(sentences[i]))
              < SEMANTIC_SIMILARITY_THRESHOLD
         THEN ChunkLoop_BufferHead(doc, sentences, i + 1,
                                   Append(chunks,
                                          DocumentChunk(current_chunk,
                                                        doc.name, chunk_id,
                                                        doc.type)),
                                   <<sentences[i]>>, chunk_id + 1)
         ELSE ChunkLoop_BufferHead(doc, sentences, i + 1, chunks,
                                   Append(current_chunk, sentences[i]),
                                   chunk_id)

\* the loop of _chunk_document over i = 1 .. len(sentences)-1 (0-based),
\* followed by the flush of the final buffer
RECURSIVE ChunkLoop(_, _, _, _, _, _)
ChunkLoop(doc, sentences, i, chunks, current_chunk, chunk_id) ==
    IF i > Len(sentences)
    THEN IF current_chunk # <<>> /\ Strip(current_chunk) # <<>>
         THEN Append(chunks, DocumentChunk(Strip(current_chunk), doc.name,
                                           chunk_id, doc.type))
         ELSE chunks
    ELSE IF _cosine_similarity(ChunkerEncode(sentences[i - 1]),
                               ChunkerEncode(sentences[i]))
              < SEMANTIC_SIMILARITY_THRESHOLD
         THEN IF Strip(current_chunk) # <<>>
              THEN ChunkLoop(doc, sentences, i + 1,
                             Append(chunks,
                                    DocumentChunk(Strip(current_chunk),
                                                  doc.name, chunk_id,
                                                  doc.type)),
                             <<sentences[i]>>, chunk_id + 1)
              ELSE ChunkLoop(doc, sentences, i + 1, chunks,
                             <<sentences[i]>>, chunk_id)
         ELSE ChunkLoop(doc, sentences, i + 1, chunks,
                        Append(current_chunk, sentences[i]), chunk_id)

\* variant: the single chunk of a short document keeps its blanks
_chunk_document_Untrimmed(doc) ==
    LET sentences == _split_into_sentences(doc.content)
    IN  IF Len(sentences) <= 1
        THEN <<DocumentChunk(doc.content, doc.name, 0, doc.type)>>
        ELSE ChunkLoop(doc, sentences, 2, <<>>, <<sentences[1]>>, 0)

\* the sentences _chunk_document hands to self.encoder.encode: none when it
\* returns early
EncodedSentences(doc) ==
    LET sentences == _split_into_sentences(doc.content)
    IN  IF Len(sentences) <= 1 THEN <<>> ELSE sentences

_chunk_document(doc) ==
    LET sentences == _split_into_sentences(doc.content)
    IN  IF Len(sentences) <= 1
        THEN <<DocumentChunk(Strip(doc.content), doc.name, 0, doc.type)>>
        ELSE ChunkLoop(doc, sentences, 2, <<>>, <<sentences[1]>>, 0)

RECURSIVE create_chunks(_)
create_chunks(documents) ==
    IF documents = <<>> THEN <<>>
    ELSE _chunk_document(Head(documents)) \o create_chunks(Tail(documents))

\* ------------------------------------------------------------------------
\* processing/document_processor.py.  The docs folder holds files; a file is
\* [name, type, content], content being what python-docx would extract.
\* ------------------------------------------------------------------------
LeaveFile == [name |-> "leave.docx", type |-> "docx",
              content |-> <<"a", "d", "c", "b">>]

PayFile == [name |-> "pay.docx", type |-> "docx",
            content |-> <<"c", "a", "c">>]

BigFile == [name |-> "big.docx", type |-> "docx",
            content |-> [i \in 1..16 |-> IF i % 2 = 1 THEN "a" ELSE "b"]]

NotesFile == [name |-> "notes.txt", type |-> "txt", content |-> <<"a">>]

EmptyFile == [name |-> "empty.docx", type |-> "docx", content |-> <<" ">>]

\* old/leave.docx: a file in a subfolder, with the base name of LeaveFile
OldLeaveFile == [name |-> "leave.docx", type |-> "docx",
                 content |-> <<"c", "n">>]

\* the docs folders a process may find at start-up, files in glob order
DocsFolders ==
    { <<>>,
      <<NotesFile, EmptyFile>>,
      <<LeaveFile>>,
      <<LeaveFile, NotesFile, PayFile>>,
      <<BigFile, LeaveFile, PayFile>> }

\* only .docx is extracted, anything else yields ""
_extract_content(file) == IF file.type = "docx" THEN file.content ELSE <<>>

RECURSIVE load_documents(_)
load_documents(folder) ==
    IF folder = <<>> THEN <<>>
    ELSE LET file == Head(folder)
             content == _extract_content(file)
         IN  (IF content # <<>> /\ Strip(content) # <<>>
              THEN <<[name |-> file.name, content |-> content,
                      type |-> file.type]>>
              ELSE <<>>) \o load_documents(Tail(folder))

\* ------------------------------------------------------------------------
\* retrieval/vector_store.py
\* ------------------------------------------------------------------------
\* self.index: None, or a flat inner-product index holding its vectors
NoIndex == [set |-> FALSE, vectors |-> <<>>]

IndexFlatIP(vectors) == [set |-> TRUE, vectors |-> vectors]

ntotal(index) == Len(index.vectors)

\* a persisted artifact: absent, present but unreadable, or readable
AbsentFile == [state |-> "absent", data |-> <<>>]

CorruptFile == [state |-> "corrupt", data |-> <<>>]

ValidFile(data) == [state |-> "valid", data |-> data]

exists(file) == file.state # "absent"

\* what can happen inside _save_index: everything is written; an error
\* before the index file is opened; an error while the index is written;
\* an error before the chunks file is opened; an error while it is written
SaveOutcomes == {"ok", "index_unwritten", "index_partial",
                 "chunks_unwritten", "chunks_partial"}

\* VectorStore._save_index: the index first, then the chunks; the first
\* exception ends the save and is swallowed
_save_index(store, disk, outcome) ==
    LET index_raised ==
            store.index.set /\ outcome \in {"index_unwritten", "index_partial"}
        new_index_file ==
            IF ~store.index.set \/ outcome = "index_unwritten"
            THEN disk.index_file
            ELSE IF outcome = "index_partial" THEN CorruptFile
            ELSE ValidFile(store.index.vectors)
        new_chunks_file ==
            IF index_raised \/ outcome = "chunks_unwritten" THEN disk.chunks_file
            ELSE IF outcome = "chunks_partial" THEN CorruptFile
            ELSE ValidFile(store.chunks)
    IN  [index_file |-> new_index_file, chunks_file |-> new_chunks_file]

\* variant: a failed read of the chunk list is reported as a success
_load_index_TrueOnFailure(store, disk) ==
    IF exists(disk.index_file) /\ exists(disk.chunks_file)
    THEN IF disk.index_file.state = "corrupt"
         THEN [ret |-> FALSE, index |-> store.index, chunks |-> store.chunks]
         ELSE IF disk.chunks_file.state = "corrupt"
              THEN [ret |-> TRUE, index |-> IndexFlatIP(disk.index_file.data),
                    chunks |-> store.chunks]
              ELSE [ret |-> TRUE, index |-> IndexFlatIP(disk.index_file.data),
                    chunks |-> disk.chunks_file.data]
    ELSE [ret |-> FALSE, index |-> store.index, chunks |-> store.chunks]

\* variant: the unpickled chunk list is not assigned to self.chunks
_load_index_KeepsChunks(store, disk) ==
    IF exists(disk.index_file) /\ exists(disk.chunks_file)
    THEN IF disk.index_file.state = "corrupt"
         THEN [ret |-> FALSE, index |-> store.index, chunks |-> store.chunks]
         ELSE IF disk.chunks_file.state = "corrupt"
              THEN [ret |-> FALSE, index |-> IndexFlatIP(disk.index_file.data),
                    chunks |-> store.chunks]
              ELSE [ret |-> TRUE, index |-> IndexFlatIP(disk.index_file.data),
                    chunks |-> store.chunks]
    ELSE [ret |-> FALSE, index |-> store.index, chunks |-> store.chunks]

\* VectorStore._load_index: read_index assigns self.index before the chunks
\* are unpickled; an unreadable artifact raises, which is swallowed
_load_index(store, disk) ==
    IF exists(disk.index_file) /\ exists(disk.chunks_file)
    THEN IF disk.index_file.state = "corrupt"
         THEN [ret |-> FALSE, index |-> store.index, chunks |-> store.chunks]
         ELSE IF disk.chunks_file.state = "corrupt"
              THEN [ret |-> FALSE, index |-> IndexFlatIP(disk.index_file.data),
                    chunks |-> store.chunks]
              ELSE [ret |-> TRUE, index |-> IndexFlatIP(disk.index_file.data),
                    chunks |-> disk.chunks_file.data]
    ELSE [ret |-> FALSE, index |-> store.index, chunks |-> store.chunks]

\* the embeddings of build_index, one per chunk, L2-normalised
EmbedChunks(chunks) ==
    [i \in 1..Len(chunks) |-> normalize_L2(StoreEncode(chunks[i].content))]

\* the outcomes of build_index: what it returns and leaves behind
BuildFailed(index, chunks, disk) ==
    [ret |-> FALSE, index |-> index, chunks |-> chunks,
     index_file |-> disk.index_file, chunks_file |-> disk.chunks_file,
     loaded |-> FALSE, embedded |-> 0]

BuildLoaded(loaded, disk) ==
    [ret |-> TRUE, index |-> loaded.index, chunks |-> loaded.chunks,
     index_file |-> disk.index_file, chunks_file |-> disk.chunks_file,
     loaded |-> TRUE, embedded |-> 0]

\* the rebuild: self.chunks = chunks, embed, normalise, add, save
Rebuild(disk, chunks, outcome) ==
    LET built == [index |-> IndexFlatIP(EmbedChunks(chunks)), chunks |-> chunks]
        saved == _save_index(built, disk, outcome)
    IN  [ret |-> TRUE, index |-> built.index, chunks |-> built.chunks,
         index_file |-> saved.index_file, chunks_file |-> saved.chunks_file,
         loaded |-> FALSE, embedded |-> Len(chunks)]

\* variant: build_index never looks for persisted artifacts
build_index_NoCache(store, disk, chunks, available, outcome) ==
    IF ~available THEN BuildFailed(store.index, store.chunks, disk)
    ELSE IF chunks = <<>> THEN BuildFailed(store.index, store.chunks, disk)
    ELSE Rebuild(disk, chunks, outcome)

\* variant: the check for an empty chunk list is missing
build_index_NoEmptyCheck(store, disk, chunks, available, outcome) ==
    IF ~available THEN BuildFailed(store.index, store.chunks, disk)
    ELSE IF _load_index(store, disk).ret
    THEN BuildLoaded(_load_index(store, disk), disk)
    ELSE Rebuild(disk, chunks, outcome)

\* VectorStore.build_index.  The result carries the return value, the new
\* fields of the store, the new artifacts, and what the call did: whether
\* it loaded, and how many texts it handed to the embedding model
build_index(store, disk, chunks, available, outcome) ==
    IF ~available THEN BuildFailed(store.index, store.chunks, disk)
    ELSE IF _load_index(store, disk).ret
    THEN BuildLoaded(_load_index(store, disk), disk)
    ELSE IF chunks = <<>>
    THEN BuildFailed(_load_index(store, disk).index,
                     _load_index(store, disk).chunks, disk)
    ELSE Rebuild(disk, chunks, outcome)

\* index.search(q, n): the n best slots by inner product, best first, ties
\* in slot order; when the index holds fewer than n vectors the tail is
\* padded with slot -1 and the lowest score
PadScore == 0 - (2 * Scale)

Better(p, q) == p[2] > q[2] \/ (p[2] = q[2] /\ p[1] < q[1])

\* insert a pair into a list that is sorted best first
RECURSIVE InsertBest(_, _)
InsertBest(sorted, p) ==
    IF sorted = <<>> THEN <<p>>
    ELSE IF Better(p, Head(sorted)) THEN <<p>> \o sorted
    ELSE <<Head(sorted)>> \o InsertBest(Tail(sorted), p)

\* the scores of slots 0 .. m-1 against q, sorted best first
RECURSIVE SortBest(_, _, _)
SortBest(index, q, m) ==
    IF m = 0 THEN <<>>
    ELSE InsertBest(SortBest(index, q, m - 1),
                    <<m - 1, InnerProduct(q, index.vectors[m])>>)

index_search(index, q, n) ==
    LET all == SortBest(index, q, ntotal(index))
    IN  [k \in 1..n |-> IF k <= Len(all) THEN all[k] ELSE <<-1, PadScore>>]

\* variant: every pair the index returns is passed on
search_Unfiltered(store, available, query, top_k) ==
    IF ~available \/ ~store.index.set THEN <<>>
    ELSE index_search(store.index, normalize_L2(StoreEncode(query)), top_k * 2)

\* VectorStore.search: pairs (slot, score), slots counted from 0
search(store, available, query, top_k) ==
    IF ~available \/ ~store.index.set THEN <<>>
    ELSE LET query_embedding == normalize_L2(StoreEncode(query))
             found == index_search(store.index, query_embedding, top_k * 2)
         IN  SelectSeq(found, LAMBDA p : p[1] < Len(store.chunks) /\ p[2] > 0)

\* variant: search without its try block
search_call_NoTry(store, available, query, top_k, fault) ==
    IF ~available \/ ~store.index.set THEN [raised |-> FALSE, results |-> <<>>]
    ELSE IF fault THEN [raised |-> TRUE, results |-> <<>>]
    ELSE [raised |-> FALSE, results |-> search(store, available, query, top_k)]

\* VectorStore.search as a call: fault says that the embedding model or the
\* index raises inside the try block, which the except clause turns into an
\* empty result
search_call(store, available, query, top_k, fault) ==
    IF ~available \/ ~store.index.set THEN [raised |-> FALSE, results |-> <<>>]
    ELSE IF fault THEN [raised |-> FALSE, results |-> <<>>]
    ELSE [raised |-> FALSE, results |-> search(store, available, query, top_k)]

\* ------------------------------------------------------------------------
\* retrieval/retriever.py.  The retriever shares the chunk objects of
\* RAGSystem.chunks: retrieve writes relevance_score into them and returns
\* references (the 0-based positions) to them.
\* ------------------------------------------------------------------------
RECURSIVE Annotate(_, _)
Annotate(chunks, semantic_results) ==
    IF semantic_results = <<>> THEN chunks
    ELSE LET idx == Head(semantic_results)[1]
             score == Head(semantic_results)[2]
         IN  IF idx < Len(chunks)
             THEN Annotate([chunks EXCEPT ![idx + 1].relevance_score = score],
                           Tail(semantic_results))
             ELSE Annotate(chunks, Tail(semantic_results))

\* variant: the chunks are returned without their scores
retrieve_Unscored(chunks, semantic_results) ==
    LET kept == SelectSeq(semantic_results, LAMBDA p : p[1] < Len(chunks))
    IN  [results |-> [i \in 1..Len(kept) |-> kept[i][1]], chunks |-> chunks]

\* SemanticRetriever.retrieve on the results of vector_store.search
retrieve(chunks, semantic_results) ==
    LET kept == SelectSeq(semantic_results, LAMBDA p : p[1] < Len(chunks))
    IN  [results |-> [i \in 1..Len(kept) |-> kept[i][1]],
         chunks |-> Annotate(chunks, semantic_results)]

\* ------------------------------------------------------------------------
\* Strings are sequences of one-character strings.
\* ------------------------------------------------------------------------
\* utils.clean_response: the leakage markers, in scan order
stop_patterns ==
    <<
      <<"\n", "H", "u", "m", "a", "n", ":">>,
      <<"\n", "U", "s", "e", "r", ":">>,
      <<"\n", "A", "s", "s", "i", "s", "t", "a", "n", "t", ":">>,
      <<"\n", "A", "I", ":">>,
      <<"H", "u", "m", "a", "n", ":">>,
      <<"U", "s", "e", "r", ":">>,
      <<"A", "s", "s", "i", "s", "t", "a", "n", "t", ":">>,
      <<"A", "I", ":">>,
      <<"A", "S", "S", "I", "S", "T", "A", "N", "T", " ", "R", "E", "S", "P",
        "O", "N", "S", "E">>,
      <<"\n", "U", "S", "E", "R", " ", "Q", "U", "E", "S", "T", "I", "O", "N">>,
      <<"\n", "A", "N", "S", "W", "E", "R", ":">>,
      <<"\n", "D", "O", "C", "U", "M", "E", "N", "T", "A", "T", "I", "O", "N",
        ":">>,
      <<"\n", "Y", "O", "U", "R", " ", "R", "E", "S", "P", "O", "N", "S", "E">>,
      <<"\n", "U", "S", "E", "R", " ", "Q", "U", "E", "S", "T", "I", "O", "N",
        "S">>,
      <<"U", "S", "E", "R", " ", "Q", "U", "E", "S", "T", "I", "O", "N", " ",
        "(">>,
      <<"U", "S", "E", "R", " ", "Q", "U", "E", "S", "T", "I", "O", "N", "S",
        " ", "(">>,
      <<"\n", "\n", "H", "o", "w", " ", "d", "o">>,
      <<"\n", "\n", "W", "h", "a", "t", " ", "i", "s">>,
      <<"\n", "\n", "C", "a", "n", " ", "I">>,
      <<"\n", "\n", "W", "h", "e", "r", "e", " ", "c", "a", "n">>,
      <<"\n", "\n", "H", "o", "w", " ", "t", "o">>,
      <<"\n", "\n", "W", "h", "a", "t", " ", "a", "r", "e">>,
      <<"\n", "\n", "C", "a", "n", " ", "y", "o", "u">>,
      <<"\n", "\n", "W", "h", "e", "r", "e", " ", "d", "o">>,
      <<"\n", "\n", "I", "s", " ", "t", "h", "e", "r", "e">>,
      <<"\n", "\n", "A", "r", "e", " ", "t", "h", "e", "r", "e">>,
      <<"\n", "R", "e", "m", "e", "m", "b", "e", "r", ",">>,
      <<"\n", "\n", "R", "e", "m", "e", "m", "b", "e", "r", ",">>,
      <<"w", "h", "a", "t", " ", "i", "f", " ", "i">>,
      <<"w", "h", "a", "t", " ", "i", "f", " ", "y", "o", "u">>
    >>

\* LLMEngine.generate: the stop strings, in scan order
stop_strings ==
    <<
      <<"U", "S", "E", "R", " ", "Q", "U", "E", "S", "T", "I", "O", "N">>,
      <<"Q", "U", "E", "S", "T", "I", "O", "N">>,
      <<"A", "N", "S", "W", "E", "R", ":">>,
      <<"Y", "O", "U", "R", " ", "R", "E", "S", "P", "O", "N", "S", "E">>,
      <<"U", "S", "E", "R", " ", "Q", "U", "E", "S", "T", "I", "O", "N", "S">>,
      <<"\n", "\n", "H", "o", "w", " ", "d", "o">>,
      <<"\n", "\n", "W", "h", "a", "t", " ", "i", "s">>,
      <<"\n", "\n", "C", "a", "n", " ", "I">>,
      <<"\n", "\n", "W", "h", "e", "r", "e", " ", "c", "a", "n">>,
      <<"\n", "\n", "I", "s", " ", "t", "h", "e", "r", "e">>,
      <<"\n", "\n", "A", "r", "e", " ", "t", "h", "e", "r", "e">>,
      <<"\n", "R", "e", "m", "e", "m", "b", "e", "r", ",">>,
      <<"w", "h", "a", "t", " ", "i", "f", " ", "i">>,
      <<"w", "h", "a", "t", " ", "i", "f", " ", "y", "o", "u">>
    >>

FallbackText ==
    <<"I", "'", "m", " ", "h", "e", "r", "e", " ", "t", "o", " ", "h", "e",
      "l", "p", "!", " ", "W", "h", "a", "t", " ", "w", "o", "u", "l", "d",
      " ", "y", "o", "u", " ", "l", "i", "k", "e", " ", "t", "o", " ", "k",
      "n", "o", "w", " ", "a", "b", "o", "u", "t", " ", "F", "l", "o", "w",
      "H", "C", "M", "?">>

StatusApology ==
    <<"I", " ", "a", "p", "o", "l", "o", "g", "i", "z", "e", ",", " ", "b",
      "u", "t", " ", "I", " ", "e", "n", "c", "o", "u", "n", "t", "e", "r",
      "e", "d", " ", "a", "n", " ", "e", "r", "r", "o", "r", " ", "g", "e",
      "n", "e", "r", "a", "t", "i", "n", "g", " ", "a", " ", "r", "e", "s",
      "p", "o", "n", "s", "e", ".">>

TimeoutApology ==
    <<"I", " ", "a", "p", "o", "l", "o", "g", "i", "z", "e", ",", " ", "b",
      "u", "t", " ", "t", "h", "e", " ", "r", "e", "q", "u", "e", "s", "t",
      " ", "t", "i", "m", "e", "d", " ", "o", "u", "t", ".", " ", "P", "l",
      "e", "a", "s", "e", " ", "t", "r", "y", " ", "a", "g", "a", "i", "n",
      ".">>

ErrorApologyPrefix ==
    <<"I", " ", "a", "p", "o", "l", "o", "g", "i", "z", "e", ",", " ", "b",
      "u", "t", " ", "I", " ", "e", "n", "c", "o", "u", "n", "t", "e", "r",
      "e", "d", " ", "a", "n", " ", "e", "r", "r", "o", "r", ":", " ">>

IssueApologyPrefix ==
    <<"I", " ", "a", "p", "o", "l", "o", "g", "i", "z", "e", ",", " ", "b",
      "u", "t", " ", "I", " ", "e", "n", "c", "o", "u", "n", "t", "e", "r",
      "e", "d", " ", "a", "n", " ", "i", "s", "s", "u", "e", ":", " ">>

ConnectionErrorText ==
    <<"C", "o", "n", "n", "e", "c", "t", "i", "o", "n", " ", "r", "e", "f",
      "u", "s", "e", "d">>

NoRetrieverText ==
    <<"'", "N", "o", "n", "e", "T", "y", "p", "e", "'", " ", "o", "b", "j",
      "e", "c", "t", " ", "h", "a", "s", " ", "n", "o", " ", "a", "t", "t",
      "r", "i", "b", "u", "t", "e", " ", "'", "r", "e", "t", "r", "i", "e",
      "v", "e", "'">>

ApologyStart ==
    <<"I", " ", "a", "p", "o", "l", "o", "g", "i", "z", "e">>

UpperCase ==
    <<"A", "B", "C", "D", "E", "F", "G", "H", "I", "J", "K", "L", "M", "N",
      "O", "P", "Q", "R", "S", "T", "U", "V", "W", "X", "Y", "Z">>

LowerCase ==
    <<"a", "b", "c", "d", "e", "f", "g", "h", "i", "j", "k", "l", "m", "n",
      "o", "p", "q", "r", "s", "t", "u", "v", "w", "x", "y", "z">>

LowerMap == [i \in 1..Len(UpperCase) |-> LowerCase[i]]

\* str.lower() on one character and on a string
LowerChar(c) ==
    IF \E i \in 1..Len(UpperCase) : UpperCase[i] = c
    THEN LowerMap[CHOOSE i \in 1..Len(UpperCase) : UpperCase[i] = c]
    ELSE c

Lower(str) == [i \in 1..Len(str) |-> LowerChar(str[i])]

\* str.find: 0-based position of the first occurrence, -1 when there is none
Find(str, pattern) ==
    LET hits == {i \in 1..(Len(str) - Len(pattern) + 1) :
                    /\ str[i] = pattern[1]
                    /\ SubSeq(str, i, i + Len(pattern) - 1) = pattern}
    IN  IF hits = {} THEN -1
        ELSE (CHOOSE i \in hits : \A j \in hits : i <= j) - 1

Contains(str, pattern) == Find(str, pattern) # -1

IsSpace(c) == c \in {" ", "\n", "\t", "\r"}

RECURSIVE LStrip(_)
LStrip(str) ==
    IF str # <<>> /\ IsSpace(Head(str)) THEN LStrip(Tail(str)) ELSE str

RECURSIVE RStrip(_)
RStrip(str) ==
    IF str # <<>> /\ IsSpace(str[Len(str)])
    THEN RStrip(SubSeq(str, 1, Len(str) - 1)) ELSE str

\* str.strip()
StrStrip(str) == RStrip(LStrip(str))

\* re.sub(r'\s+', ' ', str): every run of whitespace becomes one space
RECURSIVE CollapseWhitespace(_)
CollapseWhitespace(str) ==
    IF str = <<>> THEN <<>>
    ELSE IF IsSpace(Head(str))
         THEN <<" ">> \o CollapseWhitespace(LStrip(str))
         ELSE <<Head(str)>> \o CollapseWhitespace(Tail(str))

\* str.split(sep) for a one-character separator
RECURSIVE Split(_, _)
Split(str, sep) ==
    LET pos == Find(str, <<sep>>)
    IN  IF pos = -1 THEN <<str>>
        ELSE <<SubSeq(str, 1, pos)>> \o Split(SubSeq(str, pos + 2, Len(str)), sep)

\* sep.join(parts)
RECURSIVE Join(_, _)
Join(parts, sep) ==
    IF parts = <<>> THEN <<>>
    ELSE IF Len(parts) = 1 THEN parts[1]
    ELSE parts[1] \o <<sep>> \o Join(Tail(parts), sep)

\* ------------------------------------------------------------------------
\* utils.py
\* ------------------------------------------------------------------------
\* the loop over stop_patterns: each pattern found cuts the response there
RECURSIVE CutAtPatterns(_, _)
CutAtPatterns(response, k) ==
    IF k > Len(stop_patterns) THEN response
    ELSE LET pos == Find(Lower(response), Lower(stop_patterns[k]))
         IN  IF pos # -1
             THEN CutAtPatterns(SubSeq(response, 1, pos), k + 1)
             ELSE CutAtPatterns(response, k + 1)

\* the last step of clean_response: drop a trailing incomplete sentence
DropIncomplete(response) ==
    IF response # <<>> /\ response[Len(response)] \notin {".", "!", "?"}
    THEN LET sentences == Split(response, ".")
         IN  IF Len(sentences) > 1
             THEN Join(SubSeq(sentences, 1, Len(sentences) - 1), ".") \o <<".">>
             ELSE response
    ELSE response

clean_response(response) ==
    IF response = <<>> THEN FallbackText
    ELSE DropIncomplete(StrStrip(CollapseWhitespace(CutAtPatterns(response, 1))))

\* ------------------------------------------------------------------------
\* generation/prompts.py.  A prompt is kept as the variable parts of its
\* template, in the order the template places them.
\* ------------------------------------------------------------------------
\* layout names the parts in the order of the template text; the history
\* section is left out of the text when the window is empty.
get_general_prompt(user_input_, recent_context) ==
    [kind |-> "general", context |-> <<>>,
     history_section |-> recent_context, question |-> user_input_,
     layout |-> IF recent_context = <<>>
                THEN <<"framing", "question">>
                ELSE <<"framing", "history_section", "question">>]

\* variant: the source blocks are numbered from 0
get_document_aware_prompt_FromZero(user_input_, context_docs_, recent_context) ==
    [kind |-> "document",
     context |-> [i \in 1..Len(context_docs_) |->
                     [number |-> i - 1,
                      source_file |-> context_docs_[i].source_file,
                      content |-> context_docs_[i].content]],
     history_section |-> recent_context, question |-> user_input_,
     layout |-> IF recent_context = <<>>
                THEN <<"instructions", "context", "question">>
                ELSE <<"instructions", "context", "history_section",
                       "question">>]

\* the blocks "[SOURCE i: source_file]" with the chunk content, i from 1
get_document_aware_prompt(user_input_, context_docs_, recent_context) ==
    [kind |-> "document",
     context |-> [i \in 1..Len(context_docs_) |->
                     [number |-> i,
                      source_file |-> context_docs_[i].source_file,
                      content |-> context_docs_[i].content]],
     history_section |-> recent_context, question |-> user_input_,
     layout |-> IF recent_context = <<>>
                THEN <<"instructions", "context", "question">>
                ELSE <<"instructions", "context", "history_section",
                       "question">>]

\* ------------------------------------------------------------------------
\* generation/llm_engine.py
\* ------------------------------------------------------------------------
\* what the POST to /api/generate can do: answer 200 with a text, answer
\* with another status, time out, or fail to connect
BackendOutcomes == {"ok", "status", "timeout", "error"}

Str_Yes == <<"Y", "e", "s", ".">>

Str_Leak == <<"G", "o", ".", "\n", "U", "s", "e", "r", ":", " ", "h", "i">>

Str_Tail == <<" ", "A", ".", " ", "b", "u", "t">>

Str_Stop == <<"O", "k", ".", " ", "A", "N", "S", "W", "E", "R", ":", " ", "x">>

\* the texts the backend may generate
RawResponses == {<<>>, Str_Yes, Str_Leak, Str_Tail, Str_Stop}

\* the clean-up after a 200 answer: the first stop string that occurs cuts
RECURSIVE CutAtStopString(_, _)
CutAtStopString(generated_text, k) ==
    IF k > Len(stop_strings) THEN generated_text
    ELSE IF Contains(generated_text, stop_strings[k])
         THEN StrStrip(SubSeq(generated_text, 1,
                              Find(generated_text, stop_strings[k])))
         ELSE CutAtStopString(generated_text, k + 1)

\* the payload of LLMEngine.generate with its default secondary parameters
Payload(prompt, max_tokens, temperature, top_p) ==
    [prompt |-> prompt, stream |-> FALSE,
     options |-> [num_predict |-> max_tokens, temperature |-> temperature,
                  top_p |-> top_p, top_k |-> 50, repeat_penalty |-> 110,
                  stop |-> stop_strings]]

\* variant: a failed request is posted a second time
post_Retry(sent, payload, outcome) ==
    IF outcome = "ok" THEN Append(sent, payload)
    ELSE Append(Append(sent, payload), payload)

\* requests.post inside LLMEngine.generate: one request per call, whatever
\* its outcome
post(sent, payload, outcome) == Append(sent, payload)

\* the string LLMEngine.generate returns for an outcome of the request
generate(outcome, raw) ==
    CASE outcome = "status"  -> StatusApology
      [] outcome = "timeout" -> TimeoutApology
      [] outcome = "error"   -> ErrorApologyPrefix \o ConnectionErrorText
      [] OTHER               -> CutAtStopString(StrStrip(raw), 1)

\* ------------------------------------------------------------------------
\* rag_system.py: the dynamic threshold of query_with_context.
\* With n scores of sum S and sum of squares Q, mean = S/n and the
\* population standard deviation is sqrt(n*Q - S*S)/n, so
\*   mean - 0.5*std = (2*S - sqrt(n*Q - S*S)) / (2*n).
\* The threshold is kept as a fraction num/den with den = 2*n, the
\* numerator rounded up; for a score s on the grid, s*den >= num is exactly
\* s >= max(MIN_RELEVANCE_THRESHOLD, mean - 0.5*std).
\* ------------------------------------------------------------------------
Squares(scores) == [i \in 1..Len(scores) |-> scores[i] * scores[i]]

Deviation(scores) ==
    ISqrt(Len(scores) * SumSeq(Squares(scores)) - SumSeq(scores) * SumSeq(scores))

\* variant: the floor at MIN_RELEVANCE_THRESHOLD is missing
DynamicThreshold_NoFloor(scores) ==
    [num |-> 2 * SumSeq(scores) - Deviation(scores), den |-> 2 * Len(scores)]

DynamicThreshold(scores) ==
    [num |-> Max(MIN_RELEVANCE_THRESHOLD * 2 * Len(scores),
                 2 * SumSeq(scores) - Deviation(scores)),
     den |-> 2 * Len(scores)]

NoThreshold == [num |-> 0, den |-> 0]

AtLeast(score, threshold) == score * threshold.den >= threshold.num

\* ------------------------------------------------------------------------
\* State
\* ------------------------------------------------------------------------
VARIABLES
    run,                \* number of the process run (1 = first start)
    docs_folder,        \* the files of DOCS_FOLDER during this run
    available,          \* VECTOR_SEARCH_AVAILABLE of this run
    disk,               \* the two persisted artifacts
    persisted,          \* history: the store the last complete save wrote
    model,              \* LLMEngine.model is set
    documents,          \* RAGSystem.documents
    chunks,             \* RAGSystem.chunks, the shared chunk objects
    vector_store,       \* VectorStore.index and VectorStore.chunks
    retriever,          \* RAGSystem.retriever is set
    init_result,        \* return value of initialize, "none" before the call
    served,             \* queries started in this run
    build_log,          \* observation of the last build_index call
    builds,             \* direct build_index calls made
    search_log,         \* observation of the last direct search call
    pc,                 \* per thread: state of the query state machine
    user_input,         \* per thread: the query text
    semantic_results,   \* per thread: pairs returned by vector_store.search
    context_docs,       \* per thread: chunk references returned by retrieve
    dynamic_threshold,  \* per thread: the threshold computed
    relevant_docs,      \* per thread: references kept after filter and cut
    requests,           \* per thread: payloads posted to the backend
    backend,            \* per thread: outcome of the backend request
    caught,             \* per thread: exceptions raised inside the call
    result,             \* per thread: what query_with_context returned
    recent_context,     \* per thread: the conversation window passed in
    decoding,           \* per thread: max_tokens, temperature, top_p passed in
    messages,           \* RAGSystem.messages, the in-process history
    clock,              \* datetime.now(), counted in calls
    appended,           \* history: all messages appended since the last clear
    app,                \* the front end running: "api" or "streamlit"
    redis_up,           \* the session store answers
    session_manager,    \* the front end holds a SessionManager
    sessions,           \* the session store: session id -> record
    archives,           \* the archive folder: records written, oldest first
    handler,            \* per thread: the front-end request being handled
    calls,              \* direct calls made on the session store
    window_log,         \* observation of the last get_recent_context call
    delete_log,         \* observation of the last delete_session call
    raw_text,           \* the raw response text handed to clean_response
    cleaned,            \* results of the successive clean_response calls
    chunk_log,          \* observation of the last direct chunking call
    lease,              \* session id -> time to live, and time since access
    access_log,         \* observation of the last call on a session's key
    txn                 \* per thread: the add_message call in flight

procVars == <<run, docs_folder, available, model, documents, chunks,
              vector_store, retriever, init_result, served>>

diskVars == <<disk, persisted>>

storeVars == <<build_log, builds, search_log>>

threadVars == <<pc, user_input, semantic_results, context_docs,
                dynamic_threshold, relevant_docs, requests, backend, caught,
                result, recent_context, decoding>>

historyVars == <<messages, clock, appended>>

sessionVars == <<app, redis_up, session_manager, sessions, archives, calls,
                 window_log, delete_log>>

cleanVars == <<raw_text, cleaned>>

unitVars == <<chunk_log, lease, access_log, txn>>

\* everything outside the retrieval and generation pipeline
frontVars == <<historyVars, sessionVars, handler, cleanVars, unitVars>>

vars == <<procVars, diskVars, storeVars, threadVars, frontVars>>

Threads == {"t1", "t2"}

\* the thread of a process that serves one request at a time
MainThread == {"t1"}

\* the query texts tried, and the decoding parameters of the callers
Queries == {<<"a">>, <<"b">>, <<"f">>, <<"n">>}

RecentContexts == {<<>>}

DEFAULT_MAX_TOKENS == 750
DEFAULT_TEMPERATURE == 20
DEFAULT_TOP_P == 70
DEFAULT_TOP_K == 20
REPETITION_PENALTY == 120
MAX_HISTORY == 5
RECENT_CONTEXT_EXCHANGES == 5

\* the decoding parameters a caller passes: the defaults of query and
\* query_with_context, and the lowest settings of the front-end sliders
DefaultDecoding ==
    [max_tokens |-> DEFAULT_MAX_TOKENS, temperature |-> DEFAULT_TEMPERATURE,
     top_p |-> DEFAULT_TOP_P]

Decodings == {DefaultDecoding}

SliderDecodings ==
    {DefaultDecoding, [max_tokens |-> 100, temperature |-> 10, top_p |-> 50]}

SessionIds == {"s1", "s2"}

\* the front ends; app holds which one runs, how far its start-up has come,
\* and what made the start-up fail
FrontEnds == {"api", "streamlit"}

NoSession == [exists |-> FALSE, messages |-> <<>>]

NoHandler == [kind |-> "none", stage |-> "IDLE", session_id |-> "none",
              query |-> <<>>, context |-> <<>>, decoding |-> DefaultDecoding,
              status |-> 0, error |-> "none"]

NoWindow == [called |-> FALSE, store |-> "none", num_exchanges |-> 0,
             history |-> <<>>, recent_messages |-> <<>>, context |-> <<>>,
             raised |-> FALSE]

NoDelete == [called |-> FALSE, method |-> "none", session_id |-> "none",
             archive |-> FALSE,
             existed |-> FALSE, held |-> <<>>, removed |-> FALSE,
             written |-> FALSE]

NoResult == [returned |-> FALSE, raised |-> FALSE, response |-> <<>>,
             sources |-> <<>>]

NoBuild == [called |-> FALSE, ret |-> FALSE, loaded |-> FALSE, embedded |-> 0,
            given |-> 0, index_existed |-> FALSE, chunks_existed |-> FALSE,
            index_readable |-> FALSE, chunks_readable |-> FALSE,
            available |-> FALSE]

NoSearch == [called |-> FALSE, query |-> <<>>, top_k |-> 0, fault |-> FALSE,
             raised |-> FALSE, results |-> <<>>, held |-> 0, indexed |-> 0]

EmptyStore == [index |-> NoIndex, chunks |-> <<>>]

EmptyDisk == [index_file |-> AbsentFile, chunks_file |-> AbsentFile]

\* the locals of a thread that is not inside query_with_context
ThreadsIdle ==
    /\ pc = [t \in Threads |-> "START"]
    /\ user_input = [t \in Threads |-> <<>>]
    /\ semantic_results = [t \in Threads |-> <<>>]
    /\ context_docs = [t \in Threads |-> <<>>]
    /\ dynamic_threshold = [t \in Threads |-> NoThreshold]
    /\ relevant_docs = [t \in Threads |-> <<>>]
    /\ requests = [t \in Threads |-> <<>>]
    /\ backend = [t \in Threads |-> "none"]
    /\ caught = [t \in Threads |-> <<>>]
    /\ result = [t \in Threads |-> NoResult]
    /\ recent_context = [t \in Threads |-> <<>>]
    /\ decoding = [t \in Threads |-> DefaultDecoding]

\* no front end, no session store, no direct call made yet
FrontIdle ==
    /\ clock = 0
    /\ app = [kind |-> "none", state |-> "none", cause |-> "none"]
    /\ redis_up = FALSE
    /\ session_manager = FALSE
    /\ sessions = [sid \in SessionIds |-> NoSession]
    /\ archives = <<>>
    /\ calls = 0
    /\ window_log = NoWindow
    /\ delete_log = NoDelete
    /\ handler = [t \in Threads |-> NoHandler]

\* clean_response has not been called on its own
CleanIdle ==
    /\ raw_text = <<>>
    /\ cleaned = <<>>

\* no direct call on the chunker or on a session key was made
NoChunkLog == [called |-> FALSE, method |-> "none", documents |-> <<>>,
               chunks |-> <<>>, encoded |-> <<>>]

NoLease == [ttl |-> 0, idle |-> 0, age |-> 0, live |-> FALSE]

NoAccess == [called |-> FALSE, method |-> "none", session_id |-> "none",
             existed |-> FALSE, ttl |-> 0]

NoTxn == [stage |-> "IDLE", session_id |-> "none", role |-> "none",
          session_data |-> [exists |-> FALSE, messages |-> <<>>]]

UnitsIdle ==
    /\ txn = [t \in Threads |-> NoTxn]
    /\ chunk_log = NoChunkLog
    /\ lease = [sid \in SessionIds |-> NoLease]
    /\ access_log = NoAccess

\* RAGSystem.__init__ and VectorStore.__init__ in a fresh process
Constructed ==
    /\ model = FALSE
    /\ documents = <<>>
    /\ chunks = <<>>
    /\ vector_store = EmptyStore
    /\ retriever = FALSE
    /\ init_result = "none"
    /\ served = 0
    /\ build_log = NoBuild
    /\ search_log = NoSearch
    /\ messages = <<>>
    /\ appended = <<>>

Init ==
    /\ run = 1
    /\ docs_folder \in DocsFolders
    /\ available \in BOOLEAN
    /\ disk = EmptyDisk
    /\ persisted = EmptyStore
    /\ builds = 0
    /\ Constructed
    /\ ThreadsIdle
    /\ FrontIdle
    /\ CleanIdle
    /\ UnitsIdle

\* what a build_index call did, for the record
BuildLog(b, given, before, av) ==
    [called |-> TRUE, ret |-> b.ret, loaded |-> b.loaded,
     embedded |-> b.embedded, given |-> Len(given),
     index_existed |-> exists(before.index_file),
     chunks_existed |-> exists(before.chunks_file),
     index_readable |-> before.index_file.state = "valid",
     chunks_readable |-> before.chunks_file.state = "valid",
     available |-> av]

\* the store a complete save was made from
Persisted(b, outcome, old) ==
    IF b.embedded > 0 /\ outcome = "ok"
    THEN [index |-> b.index, chunks |-> b.chunks] ELSE old

\* ------------------------------------------------------------------------
\* The process: RAGSystem.initialize, restart
\* ------------------------------------------------------------------------
\* variant: initialize does not look at what build_index returns
initialize_IgnoresBuild(load_ok, docs, made, built) ==
    IF ~load_ok THEN "load_model"
    ELSE IF docs = <<>> THEN "load_documents"
    ELSE IF made = <<>> THEN "create_chunks"
    ELSE "complete"

\* the step at which RAGSystem.initialize returns: the first check that
\* fails, or "complete" when every check passes
initialize(load_ok, docs, made, built) ==
    IF ~load_ok THEN "load_model"
    ELSE IF docs = <<>> THEN "load_documents"
    ELSE IF made = <<>> THEN "create_chunks"
    ELSE IF ~built THEN "build_index"
    ELSE "complete"

\* RAGSystem.initialize.  load_ok: the backend check of load_model passes;
\* outcome: what happens inside _save_index should the index be rebuilt
Initialize(load_ok, outcome) ==
    /\ init_result = "none"
    /\ \E docs \in {load_documents(docs_folder)} :
       \E made \in {create_chunks(docs)} :
       \E b \in {build_index(vector_store, disk, made, available, outcome)} :
       \E step \in {initialize(load_ok, docs, made, b.ret)} :
           /\ init_result' = IF step = "complete" THEN "true" ELSE "false"
           /\ retriever' = (step = "complete")
           /\ IF step = "load_model"
              THEN UNCHANGED <<model, documents, chunks, vector_store, disk,
                               persisted, build_log>>
              ELSE IF step = "load_documents"
              THEN /\ model' = TRUE
                   /\ documents' = docs
                   /\ UNCHANGED <<chunks, vector_store, disk, persisted,
                                  build_log>>
              ELSE IF step = "create_chunks"
              THEN /\ model' = TRUE
                   /\ documents' = docs
                   /\ chunks' = made
                   /\ UNCHANGED <<vector_store, disk, persisted, build_log>>
              ELSE /\ model' = TRUE
                   /\ documents' = docs
                   /\ chunks' = made
                   /\ vector_store' = [index |-> b.index, chunks |-> b.chunks]
                   /\ disk' = [index_file |-> b.index_file,
                               chunks_file |-> b.chunks_file]
                   /\ persisted' = Persisted(b, outcome, persisted)
                   /\ build_log' = BuildLog(b, made, disk, available)
    /\ UNCHANGED <<run, docs_folder, available, served, builds, search_log,
                   threadVars, frontVars>>

\* the process ends and a new one constructs RAGSystem; the docs folder may
\* have changed, the persisted artifacts stay.  Only what is on disk
\* survives, so ending the process between two queries covers every case.
Restart(folder, av) ==
    /\ run < MaxRuns
    /\ \A t \in Threads : pc[t] \in {"START", "DONE"}
    /\ run' = run + 1
    /\ docs_folder' = folder
    /\ available' = av
    /\ model' = FALSE
    /\ documents' = <<>>
    /\ chunks' = <<>>
    /\ vector_store' = EmptyStore
    /\ retriever' = FALSE
    /\ init_result' = "none"
    /\ served' = 0
    /\ build_log' = NoBuild
    /\ search_log' = NoSearch
    /\ pc' = [t \in Threads |-> "START"]
    /\ user_input' = [t \in Threads |-> <<>>]
    /\ semantic_results' = [t \in Threads |-> <<>>]
    /\ context_docs' = [t \in Threads |-> <<>>]
    /\ dynamic_threshold' = [t \in Threads |-> NoThreshold]
    /\ relevant_docs' = [t \in Threads |-> <<>>]
    /\ requests' = [t \in Threads |-> <<>>]
    /\ backend' = [t \in Threads |-> "none"]
    /\ caught' = [t \in Threads |-> <<>>]
    /\ result' = [t \in Threads |-> NoResult]
    /\ recent_context' = [t \in Threads |-> <<>>]
    /\ decoding' = [t \in Threads |-> DefaultDecoding]
    /\ messages' = <<>>
    /\ appended' = <<>>
    /\ UNCHANGED <<disk, persisted, builds, clock, sessionVars, handler,
                   cleanVars,
                   unitVars>>

\* ------------------------------------------------------------------------
\* RAGSystem.query_with_context, one action per state of its state machine
\* ------------------------------------------------------------------------
\* the chunk objects a list of references points to, as they are now
Deref(refs) == [i \in 1..Len(refs) |-> chunks[refs[i] + 1]]

\* entry: a caller passes the query text, the conversation window and the
\* decoding parameters
QueryStart(t, query, ctx, dec) ==
    /\ pc[t] \in {"START", "DONE"}
    /\ served < MaxQueries
    /\ served' = served + 1
    /\ pc' = [pc EXCEPT ![t] = "RETRIEVE"]
    /\ user_input' = [user_input EXCEPT ![t] = query]
    /\ semantic_results' = [semantic_results EXCEPT ![t] = <<>>]
    /\ context_docs' = [context_docs EXCEPT ![t] = <<>>]
    /\ dynamic_threshold' = [dynamic_threshold EXCEPT ![t] = NoThreshold]
    /\ relevant_docs' = [relevant_docs EXCEPT ![t] = <<>>]
    /\ requests' = [requests EXCEPT ![t] = <<>>]
    /\ backend' = [backend EXCEPT ![t] = "none"]
    /\ caught' = [caught EXCEPT ![t] = <<>>]
    /\ result' = [result EXCEPT ![t] = NoResult]
    /\ recent_context' = [recent_context EXCEPT ![t] = ctx]
    /\ decoding' = [decoding EXCEPT ![t] = dec]
    /\ UNCHANGED <<run, docs_folder, available, model, documents, chunks,
                   vector_store, retriever, init_result, diskVars, storeVars,
                   frontVars>>

\* the except clause of query_with_context: apology and no sources
Apology(message) ==
    [returned |-> TRUE, raised |-> FALSE,
     response |-> IssueApologyPrefix \o message, sources |-> <<>>]

\* variant: the no-candidate branch calls the document path
AfterRetrieve_WrongPath(results) ==
    IF results = <<>> THEN "DOCUMENT_RESPONSE" ELSE "THRESHOLD_FILTER"

\* the branch after retrieval: no candidates, straight to the general path
AfterRetrieve(results) ==
    IF results = <<>> THEN "GENERAL_RESPONSE" ELSE "THRESHOLD_FILTER"

\* RETRIEVE: self.retriever.retrieve(user_input, TOP_K_RETRIEVAL); with no
\* retriever the attribute access raises, which the except clause catches
Retrieve(t) ==
    /\ pc[t] = "RETRIEVE"
    /\ IF ~retriever
       THEN /\ caught' = [caught EXCEPT ![t] = Append(@, "AttributeError")]
            /\ result' = [result EXCEPT ![t] = Apology(NoRetrieverText)]
            /\ pc' = [pc EXCEPT ![t] = "DONE"]
            /\ UNCHANGED <<chunks, semantic_results, context_docs>>
       ELSE \E found \in {search(vector_store, available, user_input[t],
                                 TOP_K_RETRIEVAL)} :
            \E r \in {IF found = <<>>
                      THEN [results |-> <<>>, chunks |-> chunks]
                      ELSE retrieve(chunks, found)} :
                /\ semantic_results' = [semantic_results EXCEPT ![t] = found]
                /\ context_docs' = [context_docs EXCEPT ![t] = r.results]
                /\ chunks' = r.chunks
                /\ pc' = [pc EXCEPT ![t] = AfterRetrieve(r.results)]
                /\ UNCHANGED <<caught, result>>
    /\ UNCHANGED <<run, docs_folder, available, model, documents,
                   vector_store, retriever, init_result, served, diskVars,
                   storeVars, user_input, dynamic_threshold, relevant_docs,
                   requests, backend, recent_context, decoding, frontVars>>

\* the candidates that pass the threshold, in order
FilterRelevant(docs, threshold) ==
    SelectSeq(docs, LAMBDA ref :
                 AtLeast(chunks[ref + 1].relevance_score, threshold))

\* variant: the check for an empty filtered list is missing
AfterFilter_NoEmptyCheck(kept) == "DOCUMENT_RESPONSE"

\* variant: the cut keeps one chunk too many
TopContext_OneMore(docs) == Take(docs, TOP_K_CONTEXT + 1)

\* relevant_docs[:TOP_K_CONTEXT]
TopContext(docs) == Take(docs, TOP_K_CONTEXT)

\* the branch after the filter: nothing kept, the general path
AfterFilter(kept) ==
    IF kept = <<>> THEN "GENERAL_RESPONSE" ELSE "DOCUMENT_RESPONSE"

\* THRESHOLD_FILTER: threshold from the scores on the chunk objects, filter,
\* cut to TOP_K_CONTEXT, decide
ThresholdFilter(t) ==
    /\ pc[t] = "THRESHOLD_FILTER"
    /\ \E scores \in {[i \in 1..Len(context_docs[t]) |->
                          chunks[context_docs[t][i] + 1].relevance_score]} :
       \E threshold \in {DynamicThreshold(scores)} :
       \E kept \in {TopContext(FilterRelevant(context_docs[t], threshold))} :
           /\ dynamic_threshold' = [dynamic_threshold EXCEPT ![t] = threshold]
           /\ relevant_docs' = [relevant_docs EXCEPT ![t] = kept]
           /\ pc' = [pc EXCEPT ![t] = AfterFilter(kept)]
    /\ UNCHANGED <<procVars, diskVars, storeVars, user_input,
                   semantic_results, context_docs, requests, backend, caught,
                   result, recent_context, decoding, frontVars>>

\* llm_engine.generate followed by utils.clean_response, the tail of both
\* _generate_general_response and _generate_document_response, tabulated
\* over the outcomes of the backend request
GenerateAndClean ==
    [outcome \in BackendOutcomes, raw \in RawResponses |->
        clean_response(generate(outcome, raw))]

\* the exceptions LLMEngine.generate raises and catches for an outcome
GenerateExceptions(outcome) ==
    CASE outcome = "timeout" -> <<"Timeout">>
      [] outcome = "error"   -> <<"ConnectionError">>
      [] OTHER               -> <<>>

\* GENERAL_RESPONSE: _generate_general_response, then return with no sources
GeneralResponse(t, outcome, raw) ==
    /\ pc[t] = "GENERAL_RESPONSE"
    /\ LET prompt == get_general_prompt(user_input[t], recent_context[t])
           response == GenerateAndClean[outcome, raw]
       IN  /\ requests' = [requests EXCEPT ![t] =
                              post(@, Payload(prompt, decoding[t].max_tokens,
                                              decoding[t].temperature,
                                              decoding[t].top_p), outcome)]
           /\ result' = [result EXCEPT ![t] =
                            [returned |-> TRUE, raised |-> FALSE,
                             response |-> response, sources |-> <<>>]]
    /\ backend' = [backend EXCEPT ![t] = outcome]
    /\ caught' = [caught EXCEPT ![t] = @ \o GenerateExceptions(outcome)]
    /\ pc' = [pc EXCEPT ![t] = "DONE"]
    /\ UNCHANGED <<procVars, diskVars, storeVars, user_input,
                   semantic_results, context_docs, dynamic_threshold,
                   relevant_docs, recent_context, decoding, frontVars>>

\* DOCUMENT_RESPONSE: _generate_document_response on the kept chunks, then
\* return the response with the kept chunks
DocumentResponse(t, outcome, raw) ==
    /\ pc[t] = "DOCUMENT_RESPONSE"
    /\ LET prompt == get_document_aware_prompt(user_input[t],
                                               Deref(relevant_docs[t]),
                                               recent_context[t])
           response == GenerateAndClean[outcome, raw]
       IN  /\ requests' = [requests EXCEPT ![t] =
                              post(@, Payload(prompt, decoding[t].max_tokens,
                                              decoding[t].temperature,
                                              decoding[t].top_p), outcome)]
           /\ result' = [result EXCEPT ![t] =
                            [returned |-> TRUE, raised |-> FALSE,
                             response |-> response,
                             sources |-> relevant_docs[t]]]
    /\ backend' = [backend EXCEPT ![t] = outcome]
    /\ caught' = [caught EXCEPT ![t] = @ \o GenerateExceptions(outcome)]
    /\ pc' = [pc EXCEPT ![t] = "DONE"]
    /\ UNCHANGED <<procVars, diskVars, storeVars, user_input,
                   semantic_results, context_docs, dynamic_threshold,
                   relevant_docs, recent_context, decoding, frontVars>>

Next ==
    \/ \E load_ok \in BOOLEAN, outcome \in SaveOutcomes :
          Initialize(load_ok, outcome)
    \/ \E folder \in DocsFolders, av \in BOOLEAN : Restart(folder, av)
    \/ \E t \in MainThread, query \in Queries, rc \in RecentContexts,
          dec \in Decodings :
          QueryStart(t, query, rc, dec)
    \/ \E t \in MainThread : Retrieve(t)
    \/ \E t \in MainThread : ThresholdFilter(t)
    \/ \E t \in MainThread, outcome \in BackendOutcomes, raw \in RawResponses :
          GeneralResponse(t, outcome, raw)
    \/ \E t \in MainThread, outcome \in BackendOutcomes, raw \in RawResponses :
          DocumentResponse(t, outcome, raw)

Spec == Init /\ [][Next]_vars

\* ------------------------------------------------------------------------
\* The vector store on its own: a VectorStore is constructed, build_index is
\* called on it once (as RAGSystem.initialize does) with any chunk list,
\* the empty one included, and search is called on it.
\* ------------------------------------------------------------------------
ChunkLists == {create_chunks(load_documents(folder)) : folder \in DocsFolders}

TopKs == {2, TOP_K_RETRIEVAL}

InitStore ==
    /\ run = 1
    /\ docs_folder = <<>>
    /\ available \in BOOLEAN
    /\ disk = EmptyDisk
    /\ persisted = EmptyStore
    /\ builds = 0
    /\ Constructed
    /\ ThreadsIdle
    /\ FrontIdle
    /\ CleanIdle
    /\ UnitsIdle

\* VectorStore.__init__ in a new process
NewVectorStore(av) ==
    /\ build_log.called
    /\ builds < MaxBuilds
    /\ available' = av
    /\ vector_store' = EmptyStore
    /\ build_log' = NoBuild
    /\ search_log' = NoSearch
    /\ UNCHANGED <<run, docs_folder, model, documents, chunks, retriever,
                   init_result, served, diskVars, builds, threadVars,
                   frontVars>>

\* VectorStore.build_index(given)
BuildIndexCall(given, outcome) ==
    /\ ~build_log.called
    /\ builds < MaxBuilds
    /\ builds' = builds + 1
    /\ \E b \in {build_index(vector_store, disk, given, available, outcome)} :
          /\ vector_store' = [index |-> b.index, chunks |-> b.chunks]
          /\ disk' = [index_file |-> b.index_file,
                      chunks_file |-> b.chunks_file]
          /\ persisted' = Persisted(b, outcome, persisted)
          /\ build_log' = BuildLog(b, given, disk, available)
    /\ search_log' = NoSearch
    /\ UNCHANGED <<run, docs_folder, available, model, documents, chunks,
                   retriever, init_result, served, threadVars, frontVars>>

\* VectorStore.search(query, top_k)
SearchCall(query, top_k, fault) ==
    /\ \E r \in {search_call(vector_store, available, query, top_k, fault)} :
          search_log' = [called |-> TRUE, query |-> query, top_k |-> top_k,
                         fault |-> fault, raised |-> r.raised,
                         results |-> r.results,
                         held |-> Len(vector_store.chunks),
                         indexed |-> ntotal(vector_store.index)]
    /\ UNCHANGED <<procVars, diskVars, build_log, builds, threadVars,
                   frontVars>>

NextStore ==
    \/ \E av \in BOOLEAN : NewVectorStore(av)
    \/ \E given \in ChunkLists, outcome \in SaveOutcomes :
          BuildIndexCall(given, outcome)
    \/ \E query \in Queries, top_k \in TopKs, fault \in BOOLEAN :
          SearchCall(query, top_k, fault)

SpecStore == InitStore /\ [][NextStore]_vars

\* ------------------------------------------------------------------------
\* Properties of query_with_context (checked under Spec)
\* ------------------------------------------------------------------------
Returned(t) == result[t].returned

\* retrieve has returned in the current call of thread t
Retrieved(t) ==
    /\ pc[t] \notin {"START", "RETRIEVE"}
    /\ "AttributeError" \notin Range(caught[t])

\* the kinds of the prompts posted in the current call
PromptKinds(t) == {requests[t][i].prompt.kind : i \in 1..Len(requests[t])}

\* the score vector_store.search gave for the i-th candidate of the call
CandidateScore(t, i) ==
    (CHOOSE p \in Range(semantic_results[t]) : p[1] = context_docs[t][i])[2]

\* positions of the candidates that reach the threshold of the call
Passing(t) ==
    {i \in 1..Len(context_docs[t]) :
        AtLeast(CandidateScore(t, i), dynamic_threshold[t])}

\* the k-th passing position, counting from 1
KthPassing(t, k) ==
    CHOOSE p \in Passing(t) : Cardinality({j \in Passing(t) : j < p}) = k - 1

IsApology(str) == Take(str, Len(ApologyStart)) = ApologyStart

\* C1: when retrieve returns no candidate, the call takes the general
\* path: only the general prompt is posted, no document-aware prompt is
\* built, and the returned source list is empty.
C1_NoCandidatesGeneral ==
    \A t \in Threads :
        (Retrieved(t) /\ context_docs[t] = <<>>) =>
            /\ pc[t] \in {"GENERAL_RESPONSE", "DONE"}
            /\ "document" \notin PromptKinds(t)
            /\ pc[t] = "DONE" =>
                  /\ Returned(t)
                  /\ Len(requests[t]) = 1
                  /\ PromptKinds(t) = {"general"}
                  /\ result[t].sources = <<>>

C1_Witness ==
    \E t \in Threads :
        /\ pc[t] = "DONE"
        /\ Retrieved(t)
        /\ init_result = "true"
        /\ context_docs[t] = <<>>
        /\ PromptKinds(t) = {"general"}

\* C2: the dynamic threshold of a call is never below
\* MIN_RELEVANCE_THRESHOLD, and no chunk of a returned source list has a
\* score below MIN_RELEVANCE_THRESHOLD.
C2_ThresholdAtLeastMinimum ==
    \A t \in Threads :
        /\ dynamic_threshold[t] # NoThreshold =>
              dynamic_threshold[t].num
                  >= MIN_RELEVANCE_THRESHOLD * dynamic_threshold[t].den
        /\ Returned(t) =>
              \A i \in 1..Len(result[t].sources) :
                  Deref(result[t].sources)[i].relevance_score
                      >= MIN_RELEVANCE_THRESHOLD

\* the floor is what decides: mean - 0.5*std is below the minimum, a
\* candidate below the minimum exists, and sources are returned
C2_Witness ==
    \E t \in Threads :
        /\ Returned(t)
        /\ result[t].sources # <<>>
        /\ dynamic_threshold[t].num
              = MIN_RELEVANCE_THRESHOLD * dynamic_threshold[t].den
        /\ \E i \in 1..Len(context_docs[t]) :
              CandidateScore(t, i) < MIN_RELEVANCE_THRESHOLD

\* C3: with candidates, the document path is taken exactly when some
\* candidate reaches the dynamic threshold; when none does, the general
\* path is taken and the source list is empty.
C3_PathDecision ==
    \A t \in Threads :
        (pc[t] = "DONE" /\ Retrieved(t) /\ context_docs[t] # <<>>) =>
            /\ PromptKinds(t) = {"document"} <=> Passing(t) # {}
            /\ Passing(t) = {} =>
                  /\ PromptKinds(t) = {"general"}
                  /\ result[t].sources = <<>>

C3_Witness ==
    \E t \in Threads :
        /\ pc[t] = "DONE"
        /\ Retrieved(t)
        /\ context_docs[t] # <<>>
        /\ Passing(t) = {}
        /\ PromptKinds(t) = {"general"}

\* C4: on the document path the returned sources are the candidates that
\* reach the threshold, in retriever order (descending score), cut to the
\* first TOP_K_CONTEXT, and the prompt renders exactly this list in order.
C4_SourcesAreFilteredPrefix ==
    \A t \in Threads :
        (pc[t] = "DONE" /\ PromptKinds(t) = {"document"}) =>
            LET sources == result[t].sources
                blocks == requests[t][1].prompt.context
            IN  /\ Len(sources) = Min(Cardinality(Passing(t)), TOP_K_CONTEXT)
                /\ \A k \in 1..Len(sources) :
                      sources[k] = context_docs[t][KthPassing(t, k)]
                /\ \A k \in 1..(Len(sources) - 1) :
                      CandidateScore(t, KthPassing(t, k))
                          >= CandidateScore(t, KthPassing(t, k + 1))
                /\ Len(blocks) = Len(sources)
                /\ \A k \in 1..Len(sources) :
                      blocks[k] =
                          [number |-> k,
                           source_file |-> chunks[sources[k] + 1].source_file,
                           content |-> chunks[sources[k] + 1].content]

\* more candidates pass than fit, and some candidate fails
C4_Witness ==
    \E t \in Threads :
        /\ pc[t] = "DONE"
        /\ PromptKinds(t) = {"document"}
        /\ Cardinality(Passing(t)) > TOP_K_CONTEXT
        /\ Cardinality(Passing(t)) < Len(context_docs[t])
        /\ Len(result[t].sources) = TOP_K_CONTEXT

\* C5: whenever an exception was raised during retrieval or generation of
\* a call, the call does not raise and returns an apology string with an
\* empty source list.
C5_ExceptionsGiveApologyNoSources ==
    \A t \in Threads :
        (Returned(t) /\ caught[t] # <<>>) =>
            /\ ~result[t].raised
            /\ IsApology(result[t].response)
            /\ result[t].sources = <<>>

\* C6: whenever the backend request failed (other status, time-out, no
\* connection) the call returns a fixed apology text with an empty source
\* list, on both paths.
C6_BackendFailureNoSources ==
    \A t \in Threads :
        (Returned(t) /\ backend[t] \in {"status", "timeout", "error"}) =>
            /\ result[t].response \in
                  {StatusApology, TimeoutApology,
                   ErrorApologyPrefix \o ConnectionErrorText}
            /\ result[t].sources = <<>>

\* ------------------------------------------------------------------------
\* Properties of the vector store
\* ------------------------------------------------------------------------
\* C7: after a successful build_index, built or loaded, the index holds as
\* many vectors as the store holds chunks, in every later state.
C7_IndexAlignedWithChunks ==
    (build_log.called /\ build_log.ret) =>
        ntotal(vector_store.index) = Len(vector_store.chunks)

\* a loaded index, and a query has been answered on it
C7_Witness ==
    /\ build_log.ret
    /\ build_log.loaded
    /\ ntotal(vector_store.index) > 0
    /\ \E t \in Threads : pc[t] = "DONE" /\ context_docs[t] # <<>>

\* C8: a store loaded from the artifacts holds the chunk sequence that was
\* persisted, and search on it returns what search returned on the store
\* that was persisted, for the same query.
C8_PersistReloadRoundTrip ==
    (build_log.called /\ build_log.loaded) =>
        /\ vector_store.chunks = persisted.chunks
        /\ (search_log.called /\ ~search_log.fault) =>
              search_log.results =
                  search(persisted, TRUE, search_log.query, search_log.top_k)

C8_Witness ==
    /\ build_log.loaded
    /\ search_log.called
    /\ ~search_log.fault
    /\ search_log.results # <<>>
    /\ Len(vector_store.chunks) > 1

\* C9 as stated: build_index loads and embeds nothing exactly when both
\* artifacts exist; if either is absent it embeds all given chunks and
\* rebuilds the whole index.
C9_Original ==
    build_log.called =>
        /\ (build_log.loaded /\ build_log.embedded = 0)
              <=> (build_log.index_existed /\ build_log.chunks_existed)
        /\ ~(build_log.index_existed /\ build_log.chunks_existed) =>
              /\ ~build_log.loaded
              /\ build_log.embedded = build_log.given
              /\ vector_store.index.set
              /\ ntotal(vector_store.index) = build_log.given

\* C9: with the embedding provider available, build_index loads and embeds
\* nothing exactly when both artifacts exist and are readable; otherwise a
\* non-empty chunk list is embedded whole and the index rebuilt from it,
\* and an empty one is not embedded and the call returns false; with the
\* provider unavailable it neither loads nor embeds.
C9_CacheFirst ==
    build_log.called =>
        LET readable == build_log.index_readable /\ build_log.chunks_readable
        IN  /\ build_log.loaded <=> (build_log.available /\ readable)
            /\ build_log.loaded => build_log.embedded = 0 /\ build_log.ret
            /\ (build_log.available /\ ~readable /\ build_log.given > 0) =>
                  /\ build_log.embedded = build_log.given
                  /\ build_log.ret
                  /\ vector_store.index.set
                  /\ ntotal(vector_store.index) = build_log.given
            /\ (~build_log.available \/ (~readable /\ build_log.given = 0)) =>
                  /\ build_log.embedded = 0
                  /\ ~build_log.ret

\* a call that loaded although it was given chunks of another corpus
C9_Witness ==
    /\ build_log.called
    /\ build_log.loaded
    /\ build_log.given > 0
    /\ build_log.given # Len(vector_store.chunks)

\* C10 as stated: false and index unset when the provider is unavailable,
\* and false whenever the chunk list is empty.
C10_Original ==
    build_log.called =>
        /\ ~build_log.available =>
              ~build_log.ret /\ ~vector_store.index.set
        /\ build_log.given = 0 => ~build_log.ret

\* C10: build_index returns false and leaves the index unset when the
\* provider is unavailable; called with an empty chunk list it returns
\* false unless the provider is available and both artifacts exist and are
\* readable, in which case it loads them and returns true.
C10_FailureModes ==
    build_log.called =>
        /\ ~build_log.available =>
              ~build_log.ret /\ ~vector_store.index.set
        /\ build_log.given = 0 =>
              (build_log.ret <=>
                  /\ build_log.available
                  /\ build_log.index_readable
                  /\ build_log.chunks_readable)

\* an empty chunk list with the provider at hand and nothing to load
C10_Witness ==
    /\ build_log.called
    /\ build_log.available
    /\ build_log.given = 0
    /\ build_log.index_existed
    /\ ~build_log.ret

\* ------------------------------------------------------------------------
\* Properties of search as a call
\* ------------------------------------------------------------------------
\* C11: search on a store whose index is unset returns the empty sequence,
\* and search never raises, whatever the query, the index state and what
\* happens inside it.
C11_SearchNeverRaises ==
    search_log.called =>
        /\ ~search_log.raised
        /\ ~vector_store.index.set => search_log.results = <<>>

\* the provider is at hand, build_index has run and the index is unset
C11_Witness ==
    /\ search_log.called
    /\ available
    /\ build_log.called
    /\ ~vector_store.index.set
    /\ search_log.results = <<>>

\* ------------------------------------------------------------------------
\* Two callers on one RAGSystem (the threads of the Streamlit front end share
\* the cached RAGSystem): one corpus, initialize, then queries whose steps
\* interleave.
\* ------------------------------------------------------------------------
SharedFolder == <<LeaveFile, NotesFile, PayFile>>

SharedResponses == {Str_Yes}

InitShared ==
    /\ run = 1
    /\ docs_folder = SharedFolder
    /\ available = TRUE
    /\ disk = EmptyDisk
    /\ persisted = EmptyStore
    /\ builds = 0
    /\ Constructed
    /\ ThreadsIdle
    /\ FrontIdle
    /\ CleanIdle
    /\ UnitsIdle

NextShared ==
    \/ Initialize(TRUE, "ok")
    \/ \E t \in Threads, query \in Queries, dec \in SliderDecodings :
          QueryStart(t, query, <<>>, dec)
    \/ \E t \in Threads : Retrieve(t)
    \/ \E t \in Threads : ThresholdFilter(t)
    \/ \E t \in Threads, outcome \in {"ok", "timeout"}, raw \in SharedResponses :
          GeneralResponse(t, outcome, raw)
    \/ \E t \in Threads, outcome \in {"ok", "timeout"}, raw \in SharedResponses :
          DocumentResponse(t, outcome, raw)

SpecShared == InitShared /\ [][NextShared]_vars

\* the score this call's own search gave for the chunk a reference points to
OwnScore(t, ref) ==
    (CHOOSE p \in Range(semantic_results[t]) : p[1] = ref)[2]

\* C12: the scores carried by a source list a query has returned are the
\* scores of that query's own search, under every interleaving of queries
\* and after every later query.
C12_ReturnedScoresAreOwn ==
    \A t \in Threads :
        Returned(t) =>
            \A i \in 1..Len(result[t].sources) :
                Deref(result[t].sources)[i].relevance_score
                    = OwnScore(t, result[t].sources[i])

\* ------------------------------------------------------------------------
\* Properties of the requests to the generation backend
\* ------------------------------------------------------------------------
\* C13: every request of either response path carries the caller's
\* max_tokens, temperature and top_p, the fixed top_k = DEFAULT_TOP_K and
\* repeat penalty = REPETITION_PENALTY, and the fixed stop list.
C13_DecodingOptions ==
    \A t \in Threads :
        \A i \in 1..Len(requests[t]) :
            LET options == requests[t][i].options
            IN  /\ options.num_predict = decoding[t].max_tokens
                /\ options.temperature = decoding[t].temperature
                /\ options.top_p = decoding[t].top_p
                /\ options.top_k = DEFAULT_TOP_K
                /\ options.repeat_penalty = REPETITION_PENALTY
                /\ options.stop = stop_strings

\* C14: a query posts at most one request to the generation backend; when
\* the request fails the call returns an apology and has posted exactly one.
C14_SingleRequest ==
    \A t \in Threads :
        /\ Len(requests[t]) <= 1
        /\ (Returned(t) /\ backend[t] \in {"status", "timeout", "error"}) =>
              /\ Len(requests[t]) = 1
              /\ IsApology(result[t].response)

\* a call on the document path whose request timed out
C14_Witness ==
    \E t \in Threads :
        /\ Returned(t)
        /\ backend[t] = "timeout"
        /\ PromptKinds(t) = {"document"}
        /\ Len(requests[t]) = 1

\* ------------------------------------------------------------------------
\* Properties of initialize
\* ------------------------------------------------------------------------
\* C19: initialize returns false when the corpus yields no documents; it
\* returns true only if the backend check passed, documents and chunks
\* exist and build_index returned true; the retriever exists exactly then.
C19_InitializeSuccess ==
    /\ (init_result # "none" /\ load_documents(docs_folder) = <<>>) =>
          init_result = "false"
    /\ init_result = "true" =>
          /\ model
          /\ documents # <<>>
          /\ chunks # <<>>
          /\ build_log.called
          /\ build_log.ret
    /\ retriever <=> init_result = "true"

\* the backend check passed, the folder holds files, none yields a document
C19_Witness ==
    /\ init_result = "false"
    /\ model
    /\ docs_folder # <<>>
    /\ documents = <<>>
    /\ ~retriever

\* ------------------------------------------------------------------------
\* utils.clean_response on its own: a raw text put together from pieces that
\* hold sentence ends, white space and stop patterns, cleaned again and
\* again.
\* ------------------------------------------------------------------------
Pieces ==
    {<<"O", "k", ".">>, <<" ">>, <<"H", "u", "m", "a", "n", ":">>,
     <<"w", "h", "a", "t", " ">>, <<" ", "i", "f", " ", "i">>, <<"n", "o">>}

RECURSIVE TextsOf(_)
TextsOf(n) ==
    IF n = 0 THEN {<<>>}
    ELSE TextsOf(n - 1) \cup {text \o piece : text \in TextsOf(n - 1),
                                              piece \in Pieces}

InitClean ==
    /\ run = 1
    /\ docs_folder = <<>>
    /\ available = TRUE
    /\ disk = EmptyDisk
    /\ persisted = EmptyStore
    /\ builds = 0
    /\ Constructed
    /\ ThreadsIdle
    /\ FrontIdle
    /\ UnitsIdle
    /\ raw_text \in TextsOf(MaxPieces)
    /\ cleaned = <<>>

\* utils.clean_response(response), on the raw text first and then on what
\* the call before returned
CleanCall ==
    /\ Len(cleaned) < MaxCleans
    /\ cleaned' = Append(cleaned,
                         clean_response(IF cleaned = <<>> THEN raw_text
                                        ELSE cleaned[Len(cleaned)]))
    /\ UNCHANGED <<procVars, diskVars, storeVars, threadVars, historyVars,
                   sessionVars, handler, raw_text, unitVars>>

NextClean == CleanCall

SpecClean == InitClean /\ [][NextClean]_vars

\* C15: cleaning a cleaned response gives the same string.
C15_CleanIdempotent ==
    Len(cleaned) >= 2 => cleaned[2] = cleaned[1]

\* C38: clean_response never returns the empty string.
C38_NeverEmpty ==
    cleaned # <<>> => cleaned[1] # <<>>

\* C30: the output of clean_response contains no occurrence, in any letter
\* case, of any of the stop patterns.
C30_NoMarkerSurvives ==
    cleaned # <<>> =>
        \A k \in 1..Len(stop_patterns) :
            ~Contains(Lower(cleaned[1]), Lower(stop_patterns[k]))

\* ------------------------------------------------------------------------
\* rag_system.py: the in-process conversation memory
\* ------------------------------------------------------------------------
\* seq[-k:] of Python for k >= 0: the last k elements, and the whole
\* sequence when k = 0, since -0 is 0
LastSlice(seq, k) ==
    IF k = 0 THEN seq
    ELSE SubSeq(seq, Max(1, Len(seq) - k + 1), Len(seq))

\* the label get_recent_context gives a message
RoleLabel(role) ==
    IF role = "user" THEN <<"H", "u", "m", "a", "n">>
    ELSE <<"A", "s", "s", "i", "s", "t", "a", "n", "t">>

\* the loop of get_recent_context: one line "<label>: <content>" per message
RECURSIVE RenderContext(_)
RenderContext(recent_messages) ==
    IF recent_messages = <<>> THEN <<>>
    ELSE RoleLabel(Head(recent_messages).role) \o <<":", " ">>
         \o Head(recent_messages).content \o <<"\n">>
         \o RenderContext(Tail(recent_messages))

\* RAGSystem.get_recent_context and SessionManager.get_recent_context: the
\* messages taken, and the string returned
get_recent_context(history, num_exchanges) ==
    [recent_messages |-> LastSlice(history, num_exchanges * 2),
     context |-> RenderContext(LastSlice(history, num_exchanges * 2))]

Message(role, content, context_docs_, now) ==
    [role |-> role, content |-> content, timestamp |-> now,
     context_docs |-> context_docs_]

\* variant: the trim keeps the oldest messages
add_message_KeepsOldest(history, role, content, context_docs_, now) ==
    LET longer == Append(history, Message(role, content, context_docs_, now))
    IN  IF Len(longer) > MAX_HISTORY * 2
        THEN SubSeq(longer, 1, MAX_HISTORY * 2)
        ELSE longer

\* RAGSystem.add_message: append, then keep the last MAX_HISTORY * 2
add_message(history, role, content, context_docs_, now) ==
    LET longer == Append(history, Message(role, content, context_docs_, now))
    IN  IF Len(longer) > MAX_HISTORY * 2
        THEN LastSlice(longer, MAX_HISTORY * 2)
        ELSE longer

\* the queries and backend answers tried where the history is what matters:
\* one query that finds documents and one that finds none
HistoryQueries == {<<"a">>, <<"n">>}

NumExchanges == {0, 1, RECENT_CONTEXT_EXCHANGES}

InitHistory ==
    /\ run = 1
    /\ docs_folder = SharedFolder
    /\ available = TRUE
    /\ disk = EmptyDisk
    /\ persisted = EmptyStore
    /\ builds = 0
    /\ Constructed
    /\ ThreadsIdle
    /\ FrontIdle
    /\ CleanIdle
    /\ UnitsIdle

\* no request is being handled by thread t
Idle(t) == handler[t].stage \in {"IDLE", "RESPONDED", "FAILED"}

\* RAGSystem.add_message(role, content) called directly
AddMessageCall(role, content) ==
    /\ \A t \in Threads : Idle(t)
    /\ clock < MaxAdds
    /\ clock' = clock + 1
    /\ messages' = add_message(messages, role, content, <<>>, clock + 1)
    /\ appended' = Append(appended, Message(role, content, <<>>, clock + 1))
    /\ UNCHANGED <<procVars, diskVars, storeVars, threadVars, sessionVars,
                   handler, cleanVars,
                   unitVars>>

\* RAGSystem.clear_conversation()
ClearConversationCall ==
    /\ \A t \in Threads : Idle(t)
    /\ messages' = <<>>
    /\ appended' = <<>>
    /\ UNCHANGED <<procVars, diskVars, storeVars, threadVars, clock,
                   sessionVars, handler, cleanVars,
                   unitVars>>

\* RAGSystem.query, first half: the window of the in-process history is
\* taken and query_with_context is entered with it
QueryBegin(t, query, dec) ==
    /\ Idle(t)
    /\ served < MaxQueries
    /\ handler' = [handler EXCEPT ![t] =
                      [kind |-> "query", stage |-> "CONTEXT",
                       session_id |-> "none", query |-> query,
                       context |-> get_recent_context(
                                       messages,
                                       RECENT_CONTEXT_EXCHANGES).context,
                       decoding |-> dec, status |-> 0, error |-> "none"]]
    /\ pc' = [pc EXCEPT ![t] = "START"]
    /\ UNCHANGED <<procVars, diskVars, storeVars, user_input,
                   semantic_results, context_docs, dynamic_threshold,
                   relevant_docs, requests, backend, caught, result,
                   recent_context, decoding, historyVars, sessionVars,
                   cleanVars,
                   unitVars>>

\* the call of query_with_context a handler makes with what it prepared
HandlerQueryStart(t) ==
    /\ handler[t].stage = "CONTEXT"
    /\ pc[t] = "START"
    /\ QueryStart(t, handler[t].query, handler[t].context,
                  handler[t].decoding)

\* RAGSystem.query, second half: the exchange is saved to the in-process
\* history, the user message carrying the sources
QueryEnd(t) ==
    /\ handler[t].kind = "query"
    /\ handler[t].stage = "CONTEXT"
    /\ pc[t] = "DONE"
    /\ clock' = clock + 2
    /\ messages' = add_message(
                       add_message(messages, "user", user_input[t],
                                   result[t].sources, clock + 1),
                       "assistant", result[t].response, <<>>, clock + 2)
    /\ appended' = appended \o
                       <<Message("user", user_input[t], result[t].sources,
                                 clock + 1),
                         Message("assistant", result[t].response, <<>>,
                                 clock + 2)>>
    /\ handler' = [handler EXCEPT ![t].stage = "RESPONDED",
                                  ![t].status = 200]
    /\ UNCHANGED <<procVars, diskVars, storeVars, threadVars, sessionVars,
                   cleanVars,
                   unitVars>>

NextHistory ==
    \/ \E load_ok \in BOOLEAN : Initialize(load_ok, "ok")
    \/ \E role \in {"user"}, content \in {<<"h", "i">>} :
          AddMessageCall(role, content)
    \/ ClearConversationCall
    \/ \E t \in MainThread, query \in HistoryQueries, dec \in Decodings :
          QueryBegin(t, query, dec)
    \/ \E t \in MainThread : HandlerQueryStart(t)
    \/ \E t \in MainThread : Retrieve(t)
    \/ \E t \in MainThread : ThresholdFilter(t)
    \/ \E t \in MainThread, raw \in SharedResponses :
          GeneralResponse(t, "ok", raw)
    \/ \E t \in MainThread, raw \in SharedResponses :
          DocumentResponse(t, "ok", raw)
    \/ \E t \in MainThread : QueryEnd(t)

SpecHistory == InitHistory /\ [][NextHistory]_vars

\* position of a part in the layout of a prompt, 0 when it is not there
PartAt(prompt, part) ==
    IF \E i \in 1..Len(prompt.layout) : prompt.layout[i] = part
    THEN CHOOSE i \in 1..Len(prompt.layout) : prompt.layout[i] = part
    ELSE 0

\* C31: the general prompt holds the role framing, the conversation window
\* and the user input and no chunk content; the document prompt holds one
\* source block per retained chunk, numbered 1..k in the order of the
\* source list, each with the chunk's source file and its whole content,
\* then the conversation window, then the user question.
C31_PromptContents ==
    \A t \in Threads : \A r \in 1..Len(requests[t]) :
        LET prompt == requests[t][r].prompt
        IN  /\ prompt.question = user_input[t]
            /\ prompt.history_section = recent_context[t]
            /\ (PartAt(prompt, "history_section") # 0) =
                  (recent_context[t] # <<>>)
            /\ PartAt(prompt, "history_section")
                  < PartAt(prompt, "question")
            /\ prompt.kind = "general" =>
                  /\ prompt.context = <<>>
                  /\ PartAt(prompt, "context") = 0
            /\ prompt.kind = "document" =>
                  /\ Len(prompt.context) = Len(relevant_docs[t])
                  /\ relevant_docs[t] = result[t].sources
                  /\ \A i \in 1..Len(prompt.context) :
                        /\ prompt.context[i].number = i
                        /\ prompt.context[i].source_file =
                              chunks[relevant_docs[t][i] + 1].source_file
                        /\ prompt.context[i].content =
                              chunks[relevant_docs[t][i] + 1].content
                  /\ 0 < PartAt(prompt, "context")
                  /\ PartAt(prompt, "context") < PartAt(prompt, "question")
                  /\ recent_context[t] # <<>> =>
                        PartAt(prompt, "context")
                          < PartAt(prompt, "history_section")

\* reached: a document prompt with two source blocks and a window, and a
\* general prompt with a window
C31_Witness ==
    \E t \in Threads :
        /\ Len(requests[t]) = 1
        /\ requests[t][1].prompt.kind = "document"
        /\ Len(requests[t][1].prompt.context) >= 2
        /\ requests[t][1].prompt.history_section # <<>>

\* C17: the in-process history never holds more than MAX_HISTORY * 2
\* messages, and what it holds are the most recent of the messages appended
\* since the last clear, in the order they were appended.
C17_HistoryCap ==
    /\ Len(messages) <= MAX_HISTORY * 2
    /\ messages = SubSeq(appended,
                         Len(appended) - Min(Len(appended), MAX_HISTORY * 2) + 1,
                         Len(appended))

\* an append overflowed the cap, and a query contributed to the history
C17_Witness ==
    /\ Len(appended) > MAX_HISTORY * 2
    /\ Len(messages) = MAX_HISTORY * 2
    /\ \E i \in 1..Len(messages) : messages[i].context_docs # <<>>

\* ------------------------------------------------------------------------
\* session_manager.py.  The session store maps a session id to its record;
\* every method talks to the store first and raises when it does not answer.
\* ------------------------------------------------------------------------
\* the serialisable copies of the sources that the front ends save
SourcesData(refs) ==
    [i \in 1..Len(refs) |->
        [content |-> chunks[refs[i] + 1].content,
         source_file |-> chunks[refs[i] + 1].source_file,
         chunk_id |-> chunks[refs[i] + 1].chunk_id,
         relevance_score |-> chunks[refs[i] + 1].relevance_score]]

create_session(session_id) == [exists |-> TRUE, messages |-> <<>>]

\* SessionManager.add_message: the session is created when it is missing
sm_add_message(store, session_id, role, content, context_docs_, now) ==
    LET session_data == IF store[session_id].exists THEN store[session_id]
                        ELSE create_session(session_id)
    IN  [store EXCEPT ![session_id] =
            [session_data EXCEPT !.messages =
                Append(@, Message(role, content, context_docs_, now))]]

\* SessionManager.get_messages
get_messages(store, session_id) ==
    IF store[session_id].exists THEN store[session_id].messages ELSE <<>>

\* variant: clear_session writes an empty session when there is none
clear_session_Creates(store, session_id) ==
    [store EXCEPT ![session_id] = [exists |-> TRUE, messages |-> <<>>]]

\* SessionManager.clear_session
clear_session(store, session_id) ==
    IF store[session_id].exists
    THEN [store EXCEPT ![session_id].messages = <<>>]
    ELSE store

\* session_id[:8].  TLC has no slice of a string, so the slice is written
\* out for the two long ids of the model; a shorter id is its own slice
ShortId(session_id) ==
    IF session_id \in {"session-1", "session-2"} THEN "session-"
    ELSE session_id

\* the name of the archive file of a record: the short id and the second
\* of the clock at which it was written
ArchiveFile(record) == <<ShortId(record.session_id), record.ended_at>>

\* variant: a record is added whatever files exist
write_file_Appends(written, record) == Append(written, record)

\* open(filepath, 'w') and json.dump: a file of that name is replaced
write_file(written, record) ==
    Append(SelectSeq(written,
                     LAMBDA r : ArchiveFile(r) # ArchiveFile(record)),
           record)

\* SessionManager.archive_session: write_ok says that the archive file could
\* be written; a failed write is logged and reported as False
archive_session(store, written, session_id, write_ok, now) ==
    IF ~store[session_id].exists THEN [ret |-> FALSE, archives |-> written]
    ELSE IF ~write_ok THEN [ret |-> FALSE, archives |-> written]
    ELSE LET record == [session_id |-> session_id,
                        messages |-> store[session_id].messages,
                        ended_at |-> now]
         IN  [ret |-> TRUE, archives |-> write_file(written, record)]

\* SessionManager.delete_session: the result of archive_session is not
\* looked at, the key is deleted in any case
delete_session(store, written, session_id, archive, write_ok, now) ==
    [ret |-> store[session_id].exists,
     sessions |-> [store EXCEPT ![session_id] = NoSession],
     archived |-> IF archive
                  THEN archive_session(store, written, session_id, write_ok,
                                       now).ret
                  ELSE FALSE,
     archives |-> IF archive
                  THEN archive_session(store, written, session_id, write_ok,
                                       now).archives
                  ELSE written]

\* SessionManager.end_session
end_session(store, written, session_id, write_ok, now) ==
    delete_session(store, written, session_id, TRUE, write_ok, now)

\* ------------------------------------------------------------------------
\* The front ends (apps/api.py, apps/streamlit_app.py): start-up, the query
\* path with the session store, and direct calls on the stores.
\* ------------------------------------------------------------------------
InitSession ==
    /\ run = 1
    /\ docs_folder = SharedFolder
    /\ available = TRUE
    /\ disk = EmptyDisk
    /\ persisted = EmptyStore
    /\ builds = 0
    /\ Constructed
    /\ ThreadsIdle
    /\ CleanIdle
    /\ UnitsIdle
    /\ clock = 0
    /\ app \in {[kind |-> k, state |-> "starting", cause |-> "none"] :
                  k \in FrontEnds}
    /\ redis_up \in BOOLEAN
    /\ session_manager = FALSE
    /\ sessions = [sid \in SessionIds |-> NoSession]
    /\ archives = <<>>
    /\ calls = 0
    /\ window_log = NoWindow
    /\ delete_log = NoDelete
    /\ handler = [t \in Threads |-> NoHandler]

\* SessionManager() at start-up: the ping raises when the store does not
\* answer; startup_event of the API lets the exception end the start-up,
\* load_system of the Streamlit app goes on without a session manager
Connect ==
    /\ app.state = "starting"
    /\ IF redis_up
       THEN /\ session_manager' = TRUE
            /\ app' = [app EXCEPT !.state = "connected"]
       ELSE IF app.kind = "api"
       THEN /\ session_manager' = FALSE
            /\ app' = [app EXCEPT !.state = "failed",
                                  !.cause = "session_store"]
       ELSE /\ session_manager' = FALSE
            /\ app' = [app EXCEPT !.state = "connected"]
    /\ UNCHANGED <<procVars, diskVars, storeVars, threadVars, historyVars,
                   redis_up, sessions, archives, calls, window_log,
                   delete_log, handler, cleanVars,
                   unitVars>>

\* RAGSystem() and initialize() at start-up, after the session manager
StartupInitialize(load_ok) ==
    /\ app.state = "connected"
    /\ Initialize(load_ok, "ok")

\* the front end answers queries
Serving == app.state = "connected" /\ init_result = "true"

\* the session store stops answering, or answers again
RedisFlip ==
    /\ app.state # "starting"
    /\ redis_up' = ~redis_up
    /\ UNCHANGED <<procVars, diskVars, storeVars, threadVars, historyVars,
                   app, session_manager, sessions, archives, calls,
                   window_log, delete_log, handler, cleanVars,
                   unitVars>>

\* what a handler is left with when a call on the session store raises: the
\* API answers 500, the Streamlit script run ends with the exception
Failed(h, kind) ==
    [h EXCEPT !.kind = kind, !.stage = "FAILED",
              !.status = IF kind = "api" THEN 500 ELSE 0,
              !.error = "session_store"]

\* variant: the user message is saved before the window is read
Request_SavesFirst(t, session_id, query, dec) ==
    /\ Serving
    /\ session_manager
    /\ Idle(t)
    /\ served < MaxQueries
    /\ redis_up
    /\ sessions' = sm_add_message(sessions, session_id, "user", query, <<>>,
                                  clock + 1)
    /\ clock' = clock + 1
    /\ handler' = [handler EXCEPT ![t] =
                      [kind |-> app.kind, stage |-> "CONTEXT",
                       session_id |-> session_id, query |-> query,
                       context |-> get_recent_context(
                                       get_messages(sessions', session_id),
                                       RECENT_CONTEXT_EXCHANGES).context,
                       decoding |-> dec, status |-> 0, error |-> "none"]]
    /\ pc' = [pc EXCEPT ![t] = "START"]
    /\ UNCHANGED <<procVars, diskVars, storeVars, user_input,
                   semantic_results, context_docs, dynamic_threshold,
                   relevant_docs, requests, backend, caught, result,
                   recent_context, decoding, messages, appended, app,
                   redis_up, session_manager, archives, calls, window_log,
                   delete_log, cleanVars,
                   unitVars>>

\* the query path with a session manager, first part: the handler of
\* POST /query, or the chat input of the Streamlit app, reads the window of
\* the session
Request(t, session_id, query, dec) ==
    /\ Serving
    /\ session_manager
    /\ Idle(t)
    /\ served < MaxQueries
    /\ IF redis_up
       THEN handler' = [handler EXCEPT ![t] =
                           [kind |-> app.kind, stage |-> "CONTEXT",
                            session_id |-> session_id, query |-> query,
                            context |-> get_recent_context(
                                            get_messages(sessions, session_id),
                                            RECENT_CONTEXT_EXCHANGES).context,
                            decoding |-> dec, status |-> 0, error |-> "none"]]
       ELSE handler' = [handler EXCEPT ![t] =
                           Failed([NoHandler EXCEPT !.session_id = session_id,
                                                    !.query = query],
                                  app.kind)]
    /\ pc' = [pc EXCEPT ![t] = "START"]
    /\ UNCHANGED <<procVars, diskVars, storeVars, user_input,
                   semantic_results, context_docs, dynamic_threshold,
                   relevant_docs, requests, backend, caught, result,
                   recent_context, decoding, historyVars, sessionVars,
                   cleanVars,
                   unitVars>>

\* the query path without a session manager (Streamlit only): rag.query
LocalRequest(t, query, dec) ==
    /\ Serving
    /\ ~session_manager
    /\ QueryBegin(t, query, dec)

\* variant: the user message goes to the in-process history as well
SaveUser_AlsoLocal(t) ==
    /\ handler[t].kind \in FrontEnds
    /\ handler[t].stage = "CONTEXT"
    /\ pc[t] = "DONE"
    /\ redis_up
    /\ sessions' = sm_add_message(sessions, handler[t].session_id,
                                  "user", handler[t].query,
                                  SourcesData(result[t].sources),
                                  clock + 1)
    /\ messages' = add_message(messages, "user", handler[t].query,
                               result[t].sources, clock + 1)
    /\ clock' = clock + 1
    /\ handler' = [handler EXCEPT ![t].stage = "SAVED_USER"]
    /\ UNCHANGED <<procVars, diskVars, storeVars, threadVars,
                   appended, app, redis_up, session_manager, archives, calls,
                   window_log, delete_log, cleanVars,
                   unitVars>>

\* second part: the user message is saved to the session with the sources
SaveUser(t) ==
    /\ handler[t].kind \in FrontEnds
    /\ handler[t].stage = "CONTEXT"
    /\ pc[t] = "DONE"
    /\ IF redis_up
       THEN /\ sessions' = sm_add_message(sessions, handler[t].session_id,
                                          "user", handler[t].query,
                                          SourcesData(result[t].sources),
                                          clock + 1)
            /\ clock' = clock + 1
            /\ handler' = [handler EXCEPT ![t].stage = "SAVED_USER"]
       ELSE /\ handler' = [handler EXCEPT ![t] = Failed(@, @.kind)]
            /\ UNCHANGED <<sessions, clock>>
    /\ UNCHANGED <<procVars, diskVars, storeVars, threadVars, messages,
                   appended, app, redis_up, session_manager, archives, calls,
                   window_log, delete_log, cleanVars,
                   unitVars>>

\* third part: the assistant message is saved, and the response goes out
SaveAssistant(t) ==
    /\ handler[t].kind \in FrontEnds
    /\ handler[t].stage = "SAVED_USER"
    /\ IF redis_up
       THEN /\ sessions' = sm_add_message(sessions, handler[t].session_id,
                                          "assistant", result[t].response,
                                          <<>>, clock + 1)
            /\ clock' = clock + 1
            /\ handler' = [handler EXCEPT ![t].stage = "RESPONDED",
                                          ![t].status = 200]
       ELSE /\ handler' = [handler EXCEPT ![t] = Failed(@, @.kind)]
            /\ UNCHANGED <<sessions, clock>>
    /\ UNCHANGED <<procVars, diskVars, storeVars, threadVars, messages,
                   appended, app, redis_up, session_manager, archives, calls,
                   window_log, delete_log, cleanVars,
                   unitVars>>

\* a direct call can be made: a session manager exists, no request is being
\* handled, and calls are left
CanCall ==
    /\ app.state = "connected"
    /\ calls < MaxCalls
    /\ \A t \in Threads : Idle(t)

\* get_recent_context(num_exchanges) of the RAGSystem ("process") or of the
\* session manager ("session"), called directly
GetRecentContextCall(store, session_id, num_exchanges) ==
    /\ CanCall
    /\ store = "session" => session_manager
    /\ calls' = calls + 1
    /\ IF store = "session" /\ ~redis_up
       THEN window_log' = [NoWindow EXCEPT !.called = TRUE, !.store = store,
                                          !.num_exchanges = num_exchanges,
                                          !.raised = TRUE]
       ELSE \E history \in {IF store = "session"
                             THEN get_messages(sessions, session_id)
                             ELSE messages} :
            \E r \in {get_recent_context(history, num_exchanges)} :
               window_log' = [called |-> TRUE, store |-> store,
                              num_exchanges |-> num_exchanges,
                              history |-> history,
                              recent_messages |-> r.recent_messages,
                              context |-> r.context, raised |-> FALSE]
    /\ UNCHANGED <<procVars, diskVars, storeVars, threadVars, historyVars,
                   app, redis_up, session_manager, sessions, archives,
                   delete_log, handler, cleanVars,
                   unitVars>>

\* SessionManager.clear_session(session_id)
ClearSessionCall(session_id) ==
    /\ CanCall
    /\ session_manager
    /\ redis_up
    /\ calls' = calls + 1
    /\ sessions' = clear_session(sessions, session_id)
    /\ UNCHANGED <<procVars, diskVars, storeVars, threadVars, historyVars,
                   app, redis_up, session_manager, archives, window_log,
                   delete_log, handler, cleanVars,
                   unitVars>>

\* what a delete_session call did, for the record
DeleteLog(d, method, session_id, archive) ==
    [called |-> TRUE, method |-> method, session_id |-> session_id,
     archive |-> archive,
     existed |-> sessions[session_id].exists,
     held |-> sessions[session_id].messages,
     removed |-> d.ret, written |-> d.archived]

\* SessionManager.delete_session(session_id, archive)
DeleteSessionCall(session_id, archive, write_ok) ==
    /\ CanCall
    /\ session_manager
    /\ redis_up
    /\ calls' = calls + 1
    /\ clock' = clock + 1
    /\ \E d \in {delete_session(sessions, archives, session_id, archive,
                                  write_ok, clock + 1)} :
          /\ sessions' = d.sessions
          /\ archives' = d.archives
          /\ delete_log' = DeleteLog(d, "delete_session", session_id, archive)
    /\ UNCHANGED <<procVars, diskVars, storeVars, threadVars, messages,
                   appended, app, redis_up, session_manager, window_log,
                   handler, cleanVars,
                   unitVars>>

\* SessionManager.end_session(session_id)
EndSessionCall(session_id, write_ok) ==
    /\ CanCall
    /\ session_manager
    /\ redis_up
    /\ calls' = calls + 1
    /\ clock' = clock + 1
    /\ \E d \in {end_session(sessions, archives, session_id, write_ok,
                               clock + 1)} :
          /\ sessions' = d.sessions
          /\ archives' = d.archives
          /\ delete_log' = DeleteLog(d, "end_session", session_id, TRUE)
    /\ UNCHANGED <<procVars, diskVars, storeVars, threadVars, messages,
                   appended, app, redis_up, session_manager, window_log,
                   handler, cleanVars,
                   unitVars>>

NextSession ==
    \/ Connect
    \/ \E load_ok \in BOOLEAN : StartupInitialize(load_ok)
    \/ RedisFlip
    \/ \E t \in MainThread, sid \in SessionIds, query \in HistoryQueries,
          dec \in Decodings :
          Request(t, sid, query, dec)
    \/ \E t \in MainThread, query \in HistoryQueries, dec \in Decodings :
          LocalRequest(t, query, dec)
    \/ \E t \in MainThread : HandlerQueryStart(t)
    \/ \E t \in MainThread : Retrieve(t)
    \/ \E t \in MainThread : ThresholdFilter(t)
    \/ \E t \in MainThread, raw \in SharedResponses :
          GeneralResponse(t, "ok", raw)
    \/ \E t \in MainThread, raw \in SharedResponses :
          DocumentResponse(t, "ok", raw)
    \/ \E t \in MainThread : QueryEnd(t)
    \/ \E t \in MainThread : SaveUser(t)
    \/ \E t \in MainThread : SaveAssistant(t)
    \/ \E store \in {"process", "session"}, sid \in SessionIds,
          n \in NumExchanges :
          GetRecentContextCall(store, sid, n)
    \/ \E sid \in SessionIds : ClearSessionCall(sid)
    \/ \E sid \in SessionIds, archive \in BOOLEAN, write_ok \in BOOLEAN :
          DeleteSessionCall(sid, archive, write_ok)
    \/ \E sid \in SessionIds, write_ok \in BOOLEAN :
          EndSessionCall(sid, write_ok)

SpecSession == InitSession /\ [][NextSession]_vars

\* C16: the window get_recent_context takes holds at most
\* num_exchanges * 2 messages, and they are the most recent messages of the
\* history, in their order; the string returned renders them.
C16_WindowBound ==
    (window_log.called /\ ~window_log.raised) =>
        LET size == Min(Len(window_log.history), window_log.num_exchanges * 2)
            last == SubSeq(window_log.history,
                           Len(window_log.history) - size + 1,
                           Len(window_log.history))
        IN  /\ Len(window_log.recent_messages) <= window_log.num_exchanges * 2
            /\ window_log.recent_messages = last
            /\ window_log.context = RenderContext(last)

\* C18: a session store that does not answer, at start-up or during a
\* query, never makes the front end or a query fail.
C18_SessionStoreNeverFailsQuery ==
    /\ ~(app.state = "failed" /\ app.cause = "session_store")
    /\ \A t \in Threads :
          ~(handler[t].stage = "FAILED" /\ handler[t].error = "session_store")

\* C20: when delete_session with archiving, or end_session, removed a
\* session, an archive record with all messages of the session was written.
C20_ArchivedBeforeDeleted ==
    (delete_log.called /\ delete_log.archive /\ delete_log.removed) =>
        /\ delete_log.written
        /\ \E i \in 1..Len(archives) :
              /\ archives[i].session_id = delete_log.session_id
              /\ archives[i].messages = delete_log.held

\* ------------------------------------------------------------------------
\* The chunker alone: _chunk_document on one document and create_chunks on
\* the documents of a folder, called directly.
\* ------------------------------------------------------------------------
\* the contents tried: up to MaxSegments segments, each a sentence or blank;
\* "z" is a sentence whose embedding is the zero vector
RECURSIVE ContentsOf(_)
ContentsOf(n) ==
    IF n = 0 THEN {<<>>}
    ELSE ContentsOf(n - 1) \cup
         {Append(content, segment) : content \in ContentsOf(n - 1),
                                     segment \in {"a", "d", "b", "z", " "}}

\* the folders tried: those of the lifecycle, and one that holds two files
\* of the same base name in different subfolders
ChunkFolders == DocsFolders \cup {<<LeaveFile, OldLeaveFile, PayFile>>}

InitChunk ==
    /\ run = 1
    /\ docs_folder = <<>>
    /\ available = TRUE
    /\ disk = EmptyDisk
    /\ persisted = EmptyStore
    /\ builds = 0
    /\ Constructed
    /\ ThreadsIdle
    /\ FrontIdle
    /\ CleanIdle
    /\ UnitsIdle

\* SemanticChunker._chunk_document(doc)
ChunkDocumentCall(content) ==
    /\ \E doc \in {[name |-> "doc.docx", content |-> content,
                     type |-> "docx"]} :
          chunk_log' = [called |-> TRUE, method |-> "_chunk_document",
                        documents |-> <<doc>>,
                        chunks |-> _chunk_document(doc),
                        encoded |-> EncodedSentences(doc)]
    /\ UNCHANGED <<procVars, diskVars, storeVars, threadVars, historyVars,
                   sessionVars, handler, cleanVars, lease, access_log, txn>>

\* DocumentProcessor.load_documents() and SemanticChunker.create_chunks
CreateChunksCall(folder) ==
    /\ chunk_log' = [called |-> TRUE, method |-> "create_chunks",
                     documents |-> load_documents(folder),
                     chunks |-> create_chunks(load_documents(folder)),
                     encoded |-> <<>>]
    /\ UNCHANGED <<procVars, diskVars, storeVars, threadVars, historyVars,
                   sessionVars, handler, cleanVars, lease, access_log, txn>>

NextChunk ==
    \/ \E content \in ContentsOf(MaxSegments) : ChunkDocumentCall(content)
    \/ \E folder \in ChunkFolders : CreateChunksCall(folder)

SpecChunk == InitChunk /\ [][NextChunk]_vars

\* the observed call was _chunk_document on a document of n sentences
ChunkedOne == chunk_log.called /\ chunk_log.method = "_chunk_document"

Sentences == _split_into_sentences(chunk_log.documents[1].content)

\* the positions (from 1) in the sentence sequence where a chunk starts
RECURSIVE Starts(_, _)
Starts(chunk_list, from) ==
    IF chunk_list = <<>> THEN {}
    ELSE {from} \cup Starts(Tail(chunk_list),
                            from + Len(Head(chunk_list).content))

\* the contents of the chunks, one after the other
RECURSIVE Joined(_)
Joined(chunk_list) ==
    IF chunk_list = <<>> THEN <<>>
    ELSE Head(chunk_list).content \o Joined(Tail(chunk_list))

\* C22: for a document with at most one sentence, _chunk_document yields
\* exactly one chunk, with chunk_id 0 and the trimmed content of the
\* document, and hands nothing to the embedding model.
C22_ShortDocumentOneChunk ==
    (ChunkedOne /\ Len(Sentences) <= 1) =>
        /\ Len(chunk_log.chunks) = 1
        /\ chunk_log.chunks[1].chunk_id = 0
        /\ chunk_log.chunks[1].content = Strip(chunk_log.documents[1].content)
        /\ chunk_log.encoded = <<>>

\* reached: a one-sentence document with blanks around the sentence
C22_Witness ==
    /\ ChunkedOne
    /\ Len(Sentences) = 1
    /\ Len(chunk_log.documents[1].content) > 1
    /\ chunk_log.chunks[1].content = Sentences

\* the chunks of create_chunks that come from the document at position d
ChunksOf(d) == _chunk_document(chunk_log.documents[d])

\* C23: within one document the chunk ids are 0, 1, ..., k-1 in order, and
\* no two chunks of the corpus have the same (source_file, chunk_id).
C23_ChunkIdentityUnique ==
    (chunk_log.called /\ chunk_log.method = "create_chunks") =>
        /\ \A d \in 1..Len(chunk_log.documents) :
              \A k \in 1..Len(ChunksOf(d)) : ChunksOf(d)[k].chunk_id = k - 1
        /\ \A i, j \in 1..Len(chunk_log.chunks) :
              i # j =>
                  \/ chunk_log.chunks[i].source_file
                         # chunk_log.chunks[j].source_file
                  \/ chunk_log.chunks[i].chunk_id
                         # chunk_log.chunks[j].chunk_id

ZeroPair(i) ==
    \/ Norm(ChunkerEncode(Sentences[i - 1])) = 0
    \/ Norm(ChunkerEncode(Sentences[i])) = 0

\* C29: the similarity of a pair with a vector of norm 0 is 0, and such a
\* pair of adjacent sentences has a chunk boundary between them.
C29_ZeroNormBoundary ==
    (ChunkedOne /\ Len(Sentences) >= 2) =>
        \A i \in 2..Len(Sentences) :
            ZeroPair(i) =>
                /\ _cosine_similarity(ChunkerEncode(Sentences[i - 1]),
                                      ChunkerEncode(Sentences[i])) = 0
                /\ i \in Starts(chunk_log.chunks, 1)

\* reached: a zero-norm sentence next to a copy of itself and to another
C29_Witness ==
    /\ ChunkedOne
    /\ Len(Sentences) = 3
    /\ \A i \in 2..3 : ZeroPair(i)
    /\ Len(chunk_log.chunks) = 3

\* ------------------------------------------------------------------------
\* The threshold on given scores: query_with_context from the point where
\* retrieve has returned candidates, for any scores the embedding model may
\* give (positive, best first), among them those of the worked example.
\* ------------------------------------------------------------------------
RECURSIVE ScoreLists(_)
ScoreLists(n) ==
    IF n = 0 THEN {<<>>}
    ELSE ScoreLists(n - 1) \cup
         {Append(scores, x) : scores \in {l \in ScoreLists(n - 1) :
                                             Len(l) = n - 1},
                              x \in {100, 90, 85, 61, 60, 59, 20}}

\* the chunk objects as retrieve leaves them, each with its score
ScoredChunks(scores) ==
    [i \in 1..Len(scores) |->
        [DocumentChunk(<<"a">>, "scores.docx", i - 1, "docx")
            EXCEPT !.relevance_score = scores[i]]]

InitThreshold ==
    /\ run = 1
    /\ docs_folder = <<>>
    /\ available = TRUE
    /\ disk = EmptyDisk
    /\ persisted = EmptyStore
    /\ builds = 0
    /\ model = TRUE
    /\ documents = <<>>
    /\ vector_store = EmptyStore
    /\ retriever = TRUE
    /\ init_result = "true"
    /\ served = 1
    /\ build_log = NoBuild
    /\ search_log = NoSearch
    /\ messages = <<>>
    /\ appended = <<>>
    /\ \E scores \in {l \in ScoreLists(MaxScores) :
                          /\ l # <<>>
                          /\ \A i \in 2..Len(l) : l[i - 1] >= l[i]} :
          /\ chunks = ScoredChunks(scores)
          /\ semantic_results =
                 [t \in Threads |->
                     IF t \in MainThread
                     THEN [i \in 1..Len(scores) |-> <<i - 1, scores[i]>>]
                     ELSE <<>>]
          /\ context_docs =
                 [t \in Threads |->
                     IF t \in MainThread
                     THEN [i \in 1..Len(scores) |-> i - 1] ELSE <<>>]
    /\ pc = [t \in Threads |->
                IF t \in MainThread THEN "THRESHOLD_FILTER" ELSE "START"]
    /\ user_input = [t \in Threads |-> <<"a">>]
    /\ dynamic_threshold = [t \in Threads |-> NoThreshold]
    /\ relevant_docs = [t \in Threads |-> <<>>]
    /\ requests = [t \in Threads |-> <<>>]
    /\ backend = [t \in Threads |-> "none"]
    /\ caught = [t \in Threads |-> <<>>]
    /\ result = [t \in Threads |-> NoResult]
    /\ recent_context = [t \in Threads |-> <<>>]
    /\ decoding = [t \in Threads |-> DefaultDecoding]
    /\ FrontIdle
    /\ CleanIdle
    /\ UnitsIdle

NextThreshold ==
    \/ \E t \in MainThread : ThresholdFilter(t)
    \/ \E t \in MainThread, raw \in SharedResponses :
          GeneralResponse(t, "ok", raw)
    \/ \E t \in MainThread, raw \in SharedResponses :
          DocumentResponse(t, "ok", raw)

SpecThreshold == InitThreshold /\ [][NextThreshold]_vars

\* the scores of the candidates of thread t, in candidate order
CandidateScores(t) ==
    [i \in 1..Len(semantic_results[t]) |-> semantic_results[t][i][2]]

\* C24: for candidate scores 0.9, 0.85, 0.2 and the static minimum 0.6 the
\* dynamic threshold is 0.6, and the chunks kept are those scoring 0.9 and
\* 0.85, in that order.
C24_WorkedExample ==
    \A t \in Threads :
        (/\ CandidateScores(t) = <<90, 85, 20>>
         /\ dynamic_threshold[t] # NoThreshold) =>
            /\ MIN_RELEVANCE_THRESHOLD = 60
            /\ dynamic_threshold[t].num = 60 * dynamic_threshold[t].den
            /\ relevant_docs[t] = <<0, 1>>
            /\ chunks[1].relevance_score = 90
            /\ chunks[2].relevance_score = 85

\* reached: the call with these scores has filtered and answered
C24_Witness ==
    \E t \in Threads :
        /\ CandidateScores(t) = <<90, 85, 20>>
        /\ Returned(t)
        /\ result[t].sources = <<0, 1>>

\* C26: search(query, top_k) returns at most 2 * top_k pairs (slot, score);
\* every pair has a score above 0 and a slot from 0 to the number of chunks
\* less one, no slot occurs twice, and the scores never rise along the list.
C26_SearchResultShape ==
    search_log.called =>
        LET results == search_log.results
        IN  /\ Len(results) <= 2 * search_log.top_k
            /\ \A i \in 1..Len(results) :
                  /\ results[i][2] > 0
                  /\ 0 <= results[i][1]
                  /\ results[i][1] < search_log.held
            /\ \A i, j \in 1..Len(results) :
                  i # j => results[i][1] # results[j][1]
            /\ \A i \in 2..Len(results) : results[i - 1][2] >= results[i][2]

\* reached: a search that returned several pairs, fewer than it asked the
\* index for and fewer than the index holds
C26_Witness ==
    /\ search_log.called
    /\ Len(search_log.results) >= 2
    /\ Len(search_log.results) < 2 * search_log.top_k
    /\ Len(search_log.results) < search_log.indexed

\* the pairs of the search of thread t whose slot is within the chunk
\* sequence of the retriever
InRange(t) == SelectSeq(semantic_results[t], LAMBDA p : p[1] < Len(chunks))

\* C27: retrieve returns, in the order of the search results, the chunk at
\* the slot of every pair whose slot is within the retriever's chunk
\* sequence, with relevance_score set to the score of the pair; pairs with a
\* slot out of range are dropped.
C27_RetrieveMapsSlots ==
    \A t \in Threads :
        Retrieved(t) =>
            /\ context_docs[t] = [i \in 1..Len(InRange(t)) |-> InRange(t)[i][1]]
            /\ \A i \in 1..Len(InRange(t)) :
                  Deref(context_docs[t])[i].relevance_score = InRange(t)[i][2]

\* reached: retrieve returned chunks and dropped a pair out of range
C27_Witness ==
    \E t \in Threads :
        /\ Retrieved(t)
        /\ context_docs[t] # <<>>
        /\ Len(context_docs[t]) < Len(semantic_results[t])

\* C33: after initialize has succeeded, the chunk list the retriever maps
\* slots with is the list the index was embedded from: the vector stored at
\* each slot is the embedding of the retriever's chunk at that slot.
C33_RetrieverChunksMatchIndex ==
    init_result = "true" =>
        vector_store.index.vectors = EmbedChunks(chunks)

\* ------------------------------------------------------------------------
\* The lifecycle with progress, in one process: query_with_context is
\* straight-line code on the caller's thread and the backend request has a
\* timeout, so a step that can be taken is taken.
\* ------------------------------------------------------------------------
NextLive ==
    \/ \E load_ok \in BOOLEAN, outcome \in SaveOutcomes :
          Initialize(load_ok, outcome)
    \/ \E t \in MainThread, query \in Queries, rc \in RecentContexts,
          dec \in Decodings :
          QueryStart(t, query, rc, dec)
    \/ \E t \in MainThread : Retrieve(t)
    \/ \E t \in MainThread : ThresholdFilter(t)
    \/ \E t \in MainThread, outcome \in BackendOutcomes, raw \in RawResponses :
          GeneralResponse(t, outcome, raw)
    \/ \E t \in MainThread, outcome \in BackendOutcomes, raw \in RawResponses :
          DocumentResponse(t, outcome, raw)

\* the call of thread t leaves the stage it is in.  Retrieve,
\* ThresholdFilter, GeneralResponse and DocumentResponse are the only
\* actions that move pc[t] out of their stage and have no other guard, so
\* fairness on this step is weak fairness on each of them.
Proceeds(t, stage) ==
    /\ pc[t] = stage
    /\ pc' \in [Threads -> {"START", "RETRIEVE", "THRESHOLD_FILTER",
                            "GENERAL_RESPONSE", "DOCUMENT_RESPONSE", "DONE"}]
    /\ pc'[t] # stage

SpecLive ==
    /\ Init
    /\ [][NextLive]_vars
    /\ \A t \in MainThread :
       \A stage \in {"RETRIEVE", "THRESHOLD_FILTER", "GENERAL_RESPONSE",
                     "DOCUMENT_RESPONSE"} :
           WF_pc(Proceeds(t, stage))

\* the steps of the state machine of one call, the error exit left out
MachineStep(t) ==
    \/ pc'[t] = pc[t]
    \/ pc[t] \in {"START", "DONE"} /\ pc'[t] = "RETRIEVE"
    \/ /\ pc[t] = "RETRIEVE"
       /\ pc'[t] = "GENERAL_RESPONSE"
       /\ context_docs'[t] = <<>>
    \/ /\ pc[t] = "RETRIEVE"
       /\ pc'[t] = "THRESHOLD_FILTER"
       /\ context_docs'[t] # <<>>
    \/ /\ pc[t] = "THRESHOLD_FILTER"
       /\ pc'[t] \in {"GENERAL_RESPONSE", "DOCUMENT_RESPONSE"}
    \/ /\ pc[t] \in {"GENERAL_RESPONSE", "DOCUMENT_RESPONSE"}
       /\ pc'[t] = "DONE"

\* the error exit: retrieval raises, and the except clause returns
ErrorExit(t) ==
    /\ pc[t] = "RETRIEVE"
    /\ pc'[t] = "DONE"
    /\ caught'[t] # <<>>
    /\ requests'[t] = <<>>
    /\ result'[t] = Apology(NoRetrieverText)

\* a call that went through one response path: one prompt was posted, after
\* retrieval, and what is returned is the cleaned output of the backend call
OnePathTaken(t) ==
    /\ Retrieved(t)
    /\ Len(requests[t]) = 1
    /\ Cardinality(PromptKinds(t)) = 1
    /\ backend[t] \in BackendOutcomes
    /\ \E raw \in RawResponses :
          result[t].response = GenerateAndClean[backend[t], raw]

\* C25 as stated: every run goes START, RETRIEVE, no context or threshold
\* filter, one of the two response paths, DONE; no prompt is assembled
\* before retrieval has completed, exactly one response path is taken and
\* its output is cleaned before it is returned.
C25_Original ==
    /\ [](\A t \in Threads :
            /\ requests[t] # <<>> => Retrieved(t)
            /\ Returned(t) => OnePathTaken(t))
    /\ [][\A t \in Threads : MachineStep(t)]_vars

\* C25: every run in which retrieval does not raise goes START, RETRIEVE,
\* no context or threshold filter, one of the two response paths, DONE, with
\* one prompt posted after retrieval and the cleaned output returned; a run
\* in which retrieval raises goes from RETRIEVE to DONE with the apology of
\* the except clause and no prompt.  Every run reaches DONE.
C25_RunFollowsStateMachine ==
    /\ [](\A t \in Threads :
            /\ requests[t] # <<>> => Retrieved(t)
            /\ (Returned(t) /\ caught[t] # <<"AttributeError">>) =>
                  OnePathTaken(t))
    /\ [][\A t \in Threads : MachineStep(t) \/ ErrorExit(t)]_vars
    /\ \A t \in Threads : (pc[t] = "RETRIEVE") ~> (pc[t] = "DONE")

\* reached: a run that went through the filter and the document path while
\* the backend call failed
C25_Witness ==
    \E t \in Threads :
        /\ pc[t] = "DONE"
        /\ PromptKinds(t) = {"document"}
        /\ backend[t] = "timeout"
        /\ dynamic_threshold[t] # NoThreshold

\* ------------------------------------------------------------------------
\* session_manager.py: the time-to-live of the session keys.  For each
\* session, lease holds the seconds its key has left (ttl), the seconds
\* since the last call of create_session, get_session or update_session
\* on it (idle), the seconds since it was created (age), and whether it
\* has been created, not deleted, and never left without such a call for
\* the whole expiry (live).
\* ------------------------------------------------------------------------
SESSION_EXPIRY_SECONDS == 1800

\* the waits tried between two calls
Waits ==
    {SESSION_EXPIRY_SECONDS \div 3, 2 * (SESSION_EXPIRY_SECONDS \div 3),
     SESSION_EXPIRY_SECONDS}

\* redis setex(key, self.expiry, data): the key gets the full expiry
setex(l) == [l EXCEPT !.ttl = SESSION_EXPIRY_SECONDS, !.idle = 0]

\* variant: get_session reads the key and leaves its expiry alone
get_session_NoExpire(store, l, session_id) ==
    IF store[session_id].exists THEN [l EXCEPT !.idle = 0] ELSE l

\* SessionManager.get_session: redis expire(key, self.expiry) when the key
\* holds data
get_session(store, l, session_id) ==
    IF store[session_id].exists
    THEN [l EXCEPT !.ttl = SESSION_EXPIRY_SECONDS, !.idle = 0]
    ELSE l

\* SessionManager.update_session
update_session(l) == setex(l)

\* what a call on the session store found and left, for the record
AccessLog(method, session_id, existed, l) ==
    [called |-> TRUE, method |-> method, session_id |-> session_id,
     existed |-> existed, ttl |-> l.ttl]

\* what the calls on the session store leave alone
leaseFrame ==
    <<procVars, diskVars, storeVars, threadVars, historyVars, app, redis_up,
      session_manager, archives, window_log, delete_log, handler, cleanVars,
      chunk_log, txn>>

InitExpiry ==
    /\ run = 1
    /\ docs_folder = <<>>
    /\ available = TRUE
    /\ disk = EmptyDisk
    /\ persisted = EmptyStore
    /\ builds = 0
    /\ Constructed
    /\ ThreadsIdle
    /\ FrontIdle
    /\ CleanIdle
    /\ UnitsIdle

\* create_session
CreateSessionCall(sid) ==
    /\ sessions' = [sessions EXCEPT ![sid] = create_session(sid)]
    /\ lease' = [lease EXCEPT ![sid] = [setex(@) EXCEPT !.age = 0,
                                                        !.live = TRUE]]
    /\ access_log' = AccessLog("create_session", sid, sessions[sid].exists,
                               lease'[sid])
    /\ UNCHANGED <<calls, leaseFrame>>

\* get_session, and get_messages, which only calls it
GetSessionCall(sid, method) ==
    /\ lease' = [lease EXCEPT ![sid] = get_session(sessions, @, sid)]
    /\ access_log' = AccessLog(method, sid, sessions[sid].exists, lease'[sid])
    /\ UNCHANGED <<sessions, calls, leaseFrame>>

\* clear_session: get_session, then update_session when there is a session
ClearCall(sid) ==
    /\ sessions' = clear_session(sessions, sid)
    /\ lease' = [lease EXCEPT ![sid] =
                    IF sessions[sid].exists
                    THEN update_session(get_session(sessions, @, sid))
                    ELSE @]
    /\ access_log' = AccessLog("clear_session", sid, sessions[sid].exists,
                               lease'[sid])
    /\ UNCHANGED <<calls, leaseFrame>>

\* add_message: get_session, create_session when there is no session, then
\* update_session
SessionAddCall(sid) ==
    /\ calls < MaxCalls
    /\ calls' = calls + 1
    /\ sessions' = sm_add_message(sessions, sid, "user", <<"a">>, <<>>, 0)
    /\ lease' = [lease EXCEPT ![sid] =
                    IF sessions[sid].exists
                    THEN update_session(get_session(sessions, @, sid))
                    ELSE [update_session(setex(@)) EXCEPT !.age = 0,
                                                          !.live = TRUE]]
    /\ access_log' = AccessLog("add_message", sid, sessions[sid].exists,
                               lease'[sid])
    /\ UNCHANGED leaseFrame

\* session_exists: redis exists(key), which leaves the expiry alone
SessionExistsCall(sid) ==
    /\ access_log' = AccessLog("session_exists", sid, sessions[sid].exists,
                               lease[sid])
    /\ UNCHANGED <<sessions, lease, calls, leaseFrame>>

\* delete_session(session_id, archive=False)
DeleteCall(sid) ==
    /\ sessions' = delete_session(sessions, archives, sid, FALSE, TRUE,
                                  0).sessions
    /\ lease' = [lease EXCEPT ![sid] = NoLease]
    /\ access_log' = AccessLog("delete_session", sid, sessions[sid].exists,
                               lease'[sid])
    /\ UNCHANGED <<calls, leaseFrame>>

\* dt seconds pass with no call: every key loses dt seconds, and the store
\* removes a key that has none left
Elapse(dt) ==
    /\ \E sid \in SessionIds : sessions[sid].exists
    /\ lease' = [sid \in SessionIds |->
                    IF ~sessions[sid].exists THEN lease[sid]
                    ELSE IF lease[sid].ttl <= dt THEN NoLease
                    ELSE [ttl  |-> lease[sid].ttl - dt,
                          idle |-> Min(SESSION_EXPIRY_SECONDS,
                                       lease[sid].idle + dt),
                          age  |-> Min(2 * SESSION_EXPIRY_SECONDS,
                                       lease[sid].age + dt),
                          live |-> /\ lease[sid].live
                                   /\ lease[sid].idle + dt
                                         < SESSION_EXPIRY_SECONDS]]
    /\ sessions' = [sid \in SessionIds |->
                       IF sessions[sid].exists /\ lease[sid].ttl <= dt
                       THEN NoSession ELSE sessions[sid]]
    /\ UNCHANGED <<access_log, calls, leaseFrame>>

NextExpiry ==
    \/ \E sid \in SessionIds : CreateSessionCall(sid)
    \/ \E sid \in SessionIds, method \in {"get_session", "get_messages"} :
          GetSessionCall(sid, method)
    \/ \E sid \in SessionIds : ClearCall(sid)
    \/ \E sid \in SessionIds : SessionAddCall(sid)
    \/ \E sid \in SessionIds : SessionExistsCall(sid)
    \/ \E sid \in SessionIds : DeleteCall(sid)
    \/ \E dt \in Waits : Elapse(dt)

SpecExpiry == InitExpiry /\ [][NextExpiry]_vars

\* the calls that go through get_session or update_session
RefreshingCalls ==
    {"get_session", "get_messages", "clear_session", "add_message"}

\* C21: a call of get_session, of an operation built on it, or of
\* update_session on an existing session leaves the key with the full
\* expiry, and a session that has never been left without such a call for
\* the whole expiry is still in the store.
C21_AccessRefreshesTTL ==
    /\ (/\ access_log.called
        /\ access_log.existed
        /\ access_log.method \in RefreshingCalls) =>
            access_log.ttl = SESSION_EXPIRY_SECONDS
    /\ \A sid \in SessionIds :
          lease[sid].live =>
              /\ sessions[sid].exists
              /\ lease[sid].ttl > 0
              /\ lease[sid].ttl = SESSION_EXPIRY_SECONDS - lease[sid].idle

\* reached: a session older than the expiry that is still in the store
\* because it was read in time
C21_Witness ==
    \E sid \in SessionIds :
        /\ lease[sid].live
        /\ lease[sid].age > SESSION_EXPIRY_SECONDS
        /\ sessions[sid].exists
        /\ access_log.method = "get_messages"
        /\ access_log.session_id = sid
        /\ access_log.existed

\* ------------------------------------------------------------------------
\* session_manager.py: the operations called one after another on a store
\* that answers, on sessions that exist and on sessions that do not.  Two
\* of the ids share their first 8 characters.  clock counts seconds.
\* ------------------------------------------------------------------------
LongIds == {"session-1", "session-2", "s1"}

\* what a call returned and whether it changed the store or the archives
OpLog(method, session_id, ret, old, new) ==
    [called |-> TRUE, method |-> method, session_id |-> session_id,
     existed |-> sessions[session_id].exists, ret |-> ret,
     changed |-> old # new]

\* what the calls of this section leave alone
opFrame ==
    <<procVars, diskVars, storeVars, threadVars, messages, appended, app,
      redis_up, session_manager, window_log, delete_log, handler, cleanVars,
      chunk_log, lease, txn>>

InitOps ==
    /\ run = 1
    /\ docs_folder = <<>>
    /\ available = TRUE
    /\ disk = EmptyDisk
    /\ persisted = EmptyStore
    /\ builds = 0
    /\ Constructed
    /\ ThreadsIdle
    /\ CleanIdle
    /\ UnitsIdle
    /\ messages = <<>>
    /\ clock = 0
    /\ appended = <<>>
    /\ app = [kind |-> "api", state |-> "connected", cause |-> "none"]
    /\ redis_up = TRUE
    /\ session_manager = TRUE
    /\ sessions = [sid \in LongIds |-> NoSession]
    /\ archives = <<>>
    /\ calls = 0
    /\ window_log = NoWindow
    /\ delete_log = NoDelete
    /\ handler = [t \in Threads |-> NoHandler]

\* add_message(session_id, "user", ...)
OpAddMessage(sid) ==
    /\ calls < MaxOps
    /\ calls' = calls + 1
    /\ sessions' = sm_add_message(sessions, sid, "user", <<"a">>, <<>>, clock)
    /\ access_log' = OpLog("add_message", sid, TRUE, sessions, sessions')
    /\ UNCHANGED <<archives, clock, opFrame>>

\* get_session(session_id): the session data, None (NoSession) without one
OpGetSession(sid) ==
    /\ calls < MaxOps
    /\ calls' = calls + 1
    /\ access_log' = OpLog("get_session", sid,
                           IF sessions[sid].exists THEN sessions[sid]
                           ELSE NoSession,
                           sessions, sessions)
    /\ UNCHANGED <<sessions, archives, clock, opFrame>>

\* get_messages(session_id)
OpGetMessages(sid) ==
    /\ calls < MaxOps
    /\ calls' = calls + 1
    /\ access_log' = OpLog("get_messages", sid, get_messages(sessions, sid),
                           sessions, sessions)
    /\ UNCHANGED <<sessions, archives, clock, opFrame>>

\* clear_session(session_id): True when there was a session
OpClearSession(sid) ==
    /\ calls < MaxOps
    /\ calls' = calls + 1
    /\ sessions' = clear_session(sessions, sid)
    /\ access_log' = OpLog("clear_session", sid, sessions[sid].exists,
                           sessions, sessions')
    /\ UNCHANGED <<archives, clock, opFrame>>

\* archive_session(session_id)
OpArchiveSession(sid, write_ok) ==
    /\ calls < MaxOps
    /\ calls' = calls + 1
    /\ \E a \in {archive_session(sessions, archives, sid, write_ok, clock)} :
          /\ archives' = a.archives
          /\ access_log' = OpLog("archive_session", sid, a.ret,
                                 archives, a.archives)
    /\ UNCHANGED <<sessions, clock, opFrame>>

\* delete_session(session_id, archive)
OpDeleteSession(sid, archive, write_ok) ==
    /\ calls < MaxOps
    /\ calls' = calls + 1
    /\ \E d \in {delete_session(sessions, archives, sid, archive, write_ok,
                                  clock)} :
          /\ sessions' = d.sessions
          /\ archives' = d.archives
          /\ access_log' = OpLog("delete_session", sid, d.ret,
                                 <<sessions, archives>>,
                                 <<d.sessions, d.archives>>)
    /\ UNCHANGED <<clock, opFrame>>

\* a second passes
OpTick ==
    /\ calls < MaxOps
    /\ calls' = calls + 1
    /\ clock' = clock + 1
    /\ UNCHANGED <<sessions, archives, access_log, opFrame>>

NextOps ==
    \/ \E sid \in LongIds : OpAddMessage(sid)
    \/ \E sid \in LongIds : OpGetSession(sid)
    \/ \E sid \in LongIds : OpGetMessages(sid)
    \/ \E sid \in LongIds : OpClearSession(sid)
    \/ \E sid \in LongIds, write_ok \in BOOLEAN : OpArchiveSession(sid, write_ok)
    \/ \E sid \in LongIds, archive \in BOOLEAN, write_ok \in BOOLEAN :
          OpDeleteSession(sid, archive, write_ok)
    \/ OpTick

SpecOps == InitOps /\ [][NextOps]_vars

\* C39: an operation on a session that is not in the store does not create
\* it and reports the absence: get_session gives None, get_messages the
\* empty list, clear_session, archive_session and delete_session give False,
\* and the store and the archives are as before; add_message alone brings a
\* session into the store.
C39_AbsentSessionOps ==
    /\ [](access_log.called /\ ~access_log.existed =>
          /\ access_log.method = "get_session" =>
                access_log.ret = NoSession /\ ~access_log.changed
          /\ access_log.method = "get_messages" =>
                access_log.ret = <<>> /\ ~access_log.changed
          /\ access_log.method \in {"clear_session", "archive_session",
                                     "delete_session"} =>
                access_log.ret = FALSE /\ ~access_log.changed)
    /\ [][\A sid \in LongIds :
            (~sessions[sid].exists /\ sessions'[sid].exists) =>
                /\ access_log'.method = "add_message"
                /\ access_log'.session_id = sid]_vars

\* reached: a delete on a session that is not there, while another session
\* is in the store and an archive has been written
C39_Witness ==
    /\ access_log.called
    /\ ~access_log.existed
    /\ access_log.method = "delete_session"
    /\ \E sid \in LongIds : sessions[sid].exists
    /\ archives # <<>>

\* C40: a successful archive_session leaves the archive records of the
\* other sessions in place.
C40_ArchivesNotOverwritten ==
    [][\A i \in 1..Len(archives) :
          (/\ access_log'.called
           /\ access_log'.method \in {"archive_session", "delete_session"}
           /\ archives[i].session_id # access_log'.session_id) =>
              \E j \in 1..Len(archives') : archives'[j] = archives[i]]_vars

\* ------------------------------------------------------------------------
\* session_manager.py and the query handlers: two requests, or two
\* processes, save their exchanges to the session store at the same time.
\* add_message is a get_session, a create_session when nothing was found,
\* an append to the copy it holds, and an update_session; each of them is
\* one round trip to the store, and other round trips can come in between.
\* served counts the exchanges, clock the messages, calls the clear, end,
\* delete and expiry steps; appended holds the messages whose add_message
\* has returned.
\* ------------------------------------------------------------------------
InitRace ==
    /\ run = 1
    /\ docs_folder = <<>>
    /\ available = TRUE
    /\ disk = EmptyDisk
    /\ persisted = EmptyStore
    /\ builds = 0
    /\ Constructed
    /\ ThreadsIdle
    /\ CleanIdle
    /\ UnitsIdle
    /\ messages = <<>>
    /\ clock = 0
    /\ appended = <<>>
    /\ app = [kind |-> "api", state |-> "connected", cause |-> "none"]
    /\ redis_up = TRUE
    /\ session_manager = TRUE
    /\ sessions = [sid \in SessionIds |-> NoSession]
    /\ archives = <<>>
    /\ calls = 0
    /\ window_log = NoWindow
    /\ delete_log = NoDelete
    /\ handler = [t \in Threads |-> NoHandler]

\* what the steps of this section leave alone
raceFrame ==
    <<procVars, diskVars, storeVars, threadVars, messages, app, redis_up,
      session_manager, window_log, delete_log, handler, cleanVars, chunk_log,
      lease, access_log>>

\* the handler has its response and calls add_message(session_id, "user")
SaveBegin(t, sid) ==
    /\ txn[t].stage = "IDLE"
    /\ served < MaxQueries
    /\ served' = served + 1
    /\ txn' = [txn EXCEPT ![t] = [stage |-> "GET", session_id |-> sid,
                                  role |-> "user",
                                  session_data |-> NoSession]]
    /\ UNCHANGED <<run, docs_folder, available, model, documents, chunks,
                   vector_store, retriever, init_result, build_log, builds,
                   search_log, disk, persisted, threadVars, historyVars,
                   sessionVars, handler, cleanVars, chunk_log, lease,
                   access_log>>

\* add_message, get_session: the copy of the session data, if there is one
AddGet(t) ==
    /\ txn[t].stage = "GET"
    /\ txn' = [txn EXCEPT ![t].session_data = sessions[txn[t].session_id],
                          ![t].stage = IF sessions[txn[t].session_id].exists
                                       THEN "UPDATE" ELSE "CREATE"]
    /\ UNCHANGED <<sessions, archives, calls, clock, appended, served,
                   raceFrame>>

\* add_message, create_session: an empty session is written under the key
AddCreate(t) ==
    /\ txn[t].stage = "CREATE"
    /\ sessions' = [sessions EXCEPT ![txn[t].session_id] =
                       create_session(txn[t].session_id)]
    /\ txn' = [txn EXCEPT ![t].session_data =
                              create_session(txn[t].session_id),
                          ![t].stage = "UPDATE"]
    /\ UNCHANGED <<archives, calls, clock, appended, served, raceFrame>>

\* add_message, append and update_session: the copy with the new message
\* is written under the key; after the user message the handler calls
\* add_message(session_id, "assistant")
AddUpdate(t) ==
    /\ txn[t].stage = "UPDATE"
    /\ clock' = clock + 1
    /\ \E message \in {Message(txn[t].role, <<"a">>, <<>>, clock + 1)} :
          /\ sessions' = [sessions EXCEPT ![txn[t].session_id] =
                             [txn[t].session_data EXCEPT !.messages =
                                 Append(@, message)]]
          /\ appended' = Append(appended,
                                [session_id |-> txn[t].session_id,
                                 message |-> message])
    /\ txn' = [txn EXCEPT ![t] =
                  IF txn[t].role = "user"
                  THEN [stage |-> "GET", session_id |-> txn[t].session_id,
                        role |-> "assistant", session_data |-> NoSession]
                  ELSE NoTxn]
    /\ UNCHANGED <<archives, calls, served, raceFrame>>

\* another request clears, ends or deletes the session, or its key expires
Disrupt(sid, method) ==
    /\ calls < MaxCalls
    /\ calls' = calls + 1
    /\ sessions[sid].exists
    /\ IF method = "clear_session"
       THEN /\ sessions' = clear_session(sessions, sid)
            /\ UNCHANGED archives
       ELSE IF method = "end_session"
       THEN \E d \in {end_session(sessions, archives, sid, TRUE, clock)} :
               /\ sessions' = d.sessions
               /\ archives' = d.archives
       ELSE /\ sessions' = [sessions EXCEPT ![sid] = NoSession]
            /\ UNCHANGED archives
    /\ UNCHANGED <<txn, clock, appended, served, raceFrame>>

NextRace ==
    \/ \E t \in Threads, sid \in SessionIds : SaveBegin(t, sid)
    \/ \E t \in Threads : AddGet(t)
    \/ \E t \in Threads : AddCreate(t)
    \/ \E t \in Threads : AddUpdate(t)
    \/ \E sid \in SessionIds,
          method \in {"clear_session", "end_session", "delete_session",
                      "expiry"} :
          Disrupt(sid, method)

SpecRace == InitRace /\ [][NextRace]_vars

\* the messages add_message has returned for, of one session
AddedTo(sid) ==
    SelectSeq(appended, LAMBDA a : a.session_id = sid)

\* C34: with no expiry, clear or delete, once the add_message calls have
\* returned the stored list of a session holds every added message once.
C34_NoMessageLost ==
    (calls = 0 /\ \A t \in Threads : txn[t].stage = "IDLE") =>
        \A sid \in SessionIds :
            \A i \in 1..Len(AddedTo(sid)) :
                Cardinality({j \in 1..Len(sessions[sid].messages) :
                               sessions[sid].messages[j] =
                                   AddedTo(sid)[i].message}) = 1

\* C35: when no exchange is being saved, the message list of every stored
\* session is made of user and assistant pairs in order.
C35_ExchangeIsUnit ==
    (\A t \in Threads : txn[t].stage = "IDLE") =>
        \A sid \in SessionIds :
            LET held == sessions[sid].messages
            IN  /\ Len(held) % 2 = 0
                /\ \A j \in 1..Len(held) :
                      held[j].role = IF j % 2 = 1 THEN "user"
                                     ELSE "assistant"

\* ------------------------------------------------------------------------
\* The front ends answering queries one at a time: the API and the Streamlit
\* app with a session manager, and the Streamlit app without one.
\* ------------------------------------------------------------------------
NextFront ==
    \/ Connect
    \/ \E load_ok \in BOOLEAN : StartupInitialize(load_ok)
    \/ \E t \in MainThread, sid \in SessionIds, query \in HistoryQueries,
          dec \in Decodings :
          Request(t, sid, query, dec)
    \/ \E t \in MainThread, query \in HistoryQueries, dec \in Decodings :
          LocalRequest(t, query, dec)
    \/ \E t \in MainThread : HandlerQueryStart(t)
    \/ \E t \in MainThread : Retrieve(t)
    \/ \E t \in MainThread : ThresholdFilter(t)
    \/ \E t \in MainThread, raw \in SharedResponses :
          GeneralResponse(t, "ok", raw)
    \/ \E t \in MainThread, raw \in SharedResponses :
          DocumentResponse(t, "ok", raw)
    \/ \E t \in MainThread : QueryEnd(t)
    \/ \E t \in MainThread : SaveUser(t)
    \/ \E t \in MainThread : SaveAssistant(t)

SpecFront == InitSession /\ [][NextFront]_vars

\* the messages of all sessions together
StoredMessages ==
    UNION {Range(sessions[sid].messages) : sid \in SessionIds}

\* C32: query_with_context leaves the in-process history alone, only query
\* appends to it, a front end with a session manager records the exchange
\* in the session store only, and the in-process history and the session
\* store never both hold messages.
C32_OneContextHolder ==
    /\ [](/\ ~(messages # <<>> /\ StoredMessages # {})
          /\ session_manager => messages = <<>>
          /\ ~session_manager => StoredMessages = {})
    /\ [][/\ pc' # pc => messages' = messages /\ sessions' = sessions
          /\ messages' # messages =>
                \E t \in Threads :
                    /\ handler[t].kind = "query"
                    /\ handler'[t].stage = "RESPONDED"
                    /\ Len(appended') = Len(appended) + 2
          /\ sessions' # sessions =>
                \E t \in Threads : handler[t].kind \in FrontEnds]_vars

\* reached: a process that records in the session store, one exchange saved
C32_Witness ==
    /\ session_manager
    /\ \E t \in Threads : handler[t].stage = "RESPONDED" /\ handler[t].status = 200
    /\ \E sid \in SessionIds : Len(sessions[sid].messages) = 2
    /\ messages = <<>>

\* seq[:-k] of Python for k > 0
DropLast(seq, k) == SubSeq(seq, 1, Len(seq) - k)

\* the window of a history, as get_recent_context of the front ends gives it
WindowOf(history) ==
    get_recent_context(history, RECENT_CONTEXT_EXCHANGES).context

\* the messages of the context holder of the request of thread t
HeldFor(t) ==
    IF handler[t].kind = "query" THEN appended
    ELSE get_messages(sessions, handler[t].session_id)

\* C37: the window in the prompt of a query is the window of the messages
\* recorded before the query: it is read before the user message of the
\* query is recorded and holds nothing of the current exchange.
C37_WindowBeforeRecording ==
    \A t \in Threads :
        (handler[t].kind # "none" /\ pc[t] = "DONE" /\ requests[t] # <<>>) =>
            /\ handler[t].stage = "CONTEXT" =>
                  /\ requests[t][1].prompt.history_section
                         = WindowOf(HeldFor(t))
                  /\ Len(HeldFor(t)) % 2 = 0
            /\ handler[t].stage = "SAVED_USER" =>
                  /\ requests[t][1].prompt.history_section
                         = WindowOf(DropLast(HeldFor(t), 1))
                  /\ HeldFor(t)[Len(HeldFor(t))].role = "user"
            /\ handler[t].stage = "RESPONDED" =>
                  /\ requests[t][1].prompt.history_section
                         = WindowOf(DropLast(HeldFor(t), 2))
                  /\ HeldFor(t)[Len(HeldFor(t)) - 1].content = user_input[t]
                  /\ HeldFor(t)[Len(HeldFor(t))].content
                         = result[t].response

\* reached: a second exchange on one holder has been recorded, whose prompt
\* carried the first exchange as its window
C37_Witness ==
    \E t \in Threads :
        /\ handler[t].stage = "RESPONDED"
        /\ pc[t] = "DONE"
        /\ requests[t] # <<>>
        /\ requests[t][1].prompt.history_section # <<>>
        /\ Len(HeldFor(t)) = 4

\* ------------------------------------------------------------------------
\* RAGSystem.query called by two script threads of the Streamlit app without
\* a session manager: load_system is a cache_resource, so both browser
\* sessions call query on one RAGSystem and share its history.  The two
\* add_message calls of query are two steps.
\* ------------------------------------------------------------------------

\* query, rag_system.py line 106: the user message is appended
RecordUser(t) ==
    /\ handler[t].kind = "query"
    /\ handler[t].stage = "CONTEXT"
    /\ pc[t] = "DONE"
    /\ clock' = clock + 1
    /\ messages' = add_message(messages, "user", user_input[t],
                               result[t].sources, clock + 1)
    /\ appended' = Append(appended,
                          Message("user", user_input[t], result[t].sources,
                                  clock + 1))
    /\ handler' = [handler EXCEPT ![t].stage = "SAVED_USER"]
    /\ UNCHANGED <<procVars, diskVars, storeVars, threadVars, sessionVars,
                   cleanVars, unitVars>>

\* query, rag_system.py line 107: the assistant message is appended
RecordAssistant(t) ==
    /\ handler[t].kind = "query"
    /\ handler[t].stage = "SAVED_USER"
    /\ clock' = clock + 1
    /\ messages' = add_message(messages, "assistant", result[t].response,
                               <<>>, clock + 1)
    /\ appended' = Append(appended,
                          Message("assistant", result[t].response, <<>>,
                                  clock + 1))
    /\ handler' = [handler EXCEPT ![t].stage = "RESPONDED",
                                  ![t].status = 200]
    /\ UNCHANGED <<procVars, diskVars, storeVars, threadVars, sessionVars,
                   cleanVars, unitVars>>

NextTabs ==
    \/ \E load_ok \in BOOLEAN : Initialize(load_ok, "ok")
    \/ \E t \in Threads, query \in HistoryQueries, dec \in Decodings :
          QueryBegin(t, query, dec)
    \/ \E t \in Threads : HandlerQueryStart(t)
    \/ \E t \in Threads : Retrieve(t)
    \/ \E t \in Threads : ThresholdFilter(t)
    \/ \E t \in Threads, raw \in SharedResponses :
          GeneralResponse(t, "ok", raw)
    \/ \E t \in Threads, raw \in SharedResponses :
          DocumentResponse(t, "ok", raw)
    \/ \E t \in Threads : RecordUser(t)
    \/ \E t \in Threads : RecordAssistant(t)

SpecTabs == InitHistory /\ [][NextTabs]_vars

\* C36: when no query call is in flight the in-process history has even
\* length and alternates user, assistant, starting with a user message.
C36_HistoryAlternates ==
    (\A t \in Threads : handler[t].stage \notin {"CONTEXT", "SAVED_USER"}) =>
        /\ Len(messages) % 2 = 0
        /\ \A j \in 1..Len(messages) :
              messages[j].role = IF j % 2 = 1 THEN "user" ELSE "assistant"

====
